---- MODULE Spec2Model ----
(***************************************************************************)
(* Placement / payment core of the CAPS job-portal backend.                *)
(*                                                                         *)
(* The relational store is the record db (one field per table).  Every     *)
(* request handler runs in its own session: rows it loads are a private    *)
(* snapshot, rows it adds and attributes it assigns are buffered and       *)
(* reach the store at session.commit().  A handler that raises before its  *)
(* commit leaves the store untouched.                                      *)
(*                                                                         *)
(*   Spec      one request at a time, each handler is one atomic action    *)
(*   SpecConc  update_interview_status split at its store round trips,     *)
(*             two sessions interleaved                                    *)
(***************************************************************************)
EXTENDS Integers, Sequences, FiniteSets, TLC

VARIABLES db, txn, resp, nops

vars == <<db, txn, resp, nops>>

-----------------------------------------------------------------------------
(* Bounds of the model *)

MaxVacancies == 2
MaxAmount == 2
MaxOps == 5
MaxOpsPay == 8
MaxOpsConc == 7
MaxRows == 3
MaxOpsCand == 3
MaxOpsCandConc == 3
MaxOpsPlace == 4
MaxLedgerWrites == 2

JobIds == {1, 2}
CandIds == {1, 2}
IvIds == {1, 2}
Procs == {1, 2}
SeqProcs == {1}
DojValues == {1}
SalaryValues == {1}
DueValues == {2}
EmailValues == {1}
CompanyIds == {1, 2}
DateValues == {1, 2, 3}
StampValues == {1, 2}

-----------------------------------------------------------------------------
(* Values *)

Null == 0
Unset == -1
ExplicitNull == -2

HTTP_200_OK == 200
HTTP_400_BAD_REQUEST == 400
HTTP_404_NOT_FOUND == 404
HTTP_409_CONFLICT == 409
HTTP_500_INTERNAL == 500

JobStatus == {"OPEN", "FULFILLED", "DROPPED"}
CandidateEmploymentStatus == {"EMPLOYED", "UNEMPLOYED"}
InterviewStatus == {"SCHEDULED", "REJECTED", "JOINED"}
CandidateStatus == {"REGISTERED", "CAPS", "JOC", "FREE"}

Max(a, b) == IF a > b THEN a ELSE b

Min(S) == CHOOSE k \in S : \A m \in S : k <= m

-----------------------------------------------------------------------------
(* Rows *)

NoJob == [exists |-> FALSE, is_active |-> FALSE, company_id |-> Null, num_vacancies |-> 0,
          status |-> "OPEN"]

NoCand == [exists |-> FALSE, is_active |-> FALSE, status |-> "REGISTERED", email |-> Null,
           employment_status |-> "UNEMPLOYED"]

NoIv == [exists |-> FALSE, is_active |-> FALSE, job_id |-> Null, candidate_id |-> Null,
         status |-> "SCHEDULED"]

NoCompany == [exists |-> FALSE, is_active |-> FALSE]

Company(act) == [exists |-> TRUE, is_active |-> act]

Job(c, n, st) == [exists |-> TRUE, is_active |-> TRUE, company_id |-> c, num_vacancies |-> n,
                  status |-> st]

Candidate(st, email) ==
    [exists |-> TRUE, is_active |-> TRUE, status |-> st, email |-> email,
     employment_status |-> "UNEMPLOYED"]

NoFee == [candidate_id |-> Null, total_fee |-> 0, balance |-> 0, due_date |-> Null,
          is_active |-> FALSE]

JocStructureFee(cid, total_fee, due) ==
    [candidate_id |-> cid, total_fee |-> total_fee, balance |-> total_fee, due_date |-> due,
     is_active |-> TRUE]

CandidatePayment(c, a, d, ts, act) ==
    [candidate_id |-> c, amount |-> a, payment_date |-> d, created_at |-> ts, is_active |-> act]

Interview(jid, cid, st) == [exists |-> TRUE, is_active |-> TRUE, job_id |-> jid,
                            candidate_id |-> cid, status |-> st]

Joined_candidates(jid, cid, doj, salary) ==
    [job_id |-> jid, candidate_id |-> cid, Date_of_joining |-> doj, salary |-> salary,
     is_active |-> TRUE]

(* the ids a row of companies can take: the registered companies and the
   one a public form adds *)
CompanySlots == {1, 2, 3}

(* the companies registered before the requests of the model: company 1 is
   active, company 2 was deactivated; the public forms add further rows *)
Companies ==
    [c \in CompanySlots |-> IF c \in CompanyIds THEN Company(c = 1) ELSE NoCompany]

EmptyDb == [companies |-> Companies,
            jobs |-> [j \in JobIds |-> NoJob],
            cands |-> [c \in CandIds |-> NoCand],
            ivs |-> [i \in IvIds |-> NoIv],
            joined |-> << >>,
            incomes |-> << >>,
            joc_structure_fees |-> << >>,
            company_payments |-> << >>,
            candidate_payments |-> << >>,
            income_payments |-> << >>]

FreeIds(tbl, ids) == {k \in ids : ~tbl[k].exists}

-----------------------------------------------------------------------------
(* Request bodies *)

NoBody == [status |-> "SCHEDULED", doj |-> Null, salary |-> Null,
           placement_total_receivable |-> Null, placement_due_date |-> Null]

InterviewStatusUpdate ==
    [status : {"JOINED"}, doj : DojValues, salary : SalaryValues,
     placement_total_receivable : 1..MaxAmount, placement_due_date : DueValues \cup {Null}]
    \cup [status : {"JOINED"}, doj : {Null}, salary : SalaryValues,
          placement_total_receivable : {MaxAmount}, placement_due_date : {Null}]
    \cup [status : {"JOINED"}, doj : DojValues, salary : {Null},
          placement_total_receivable : {MaxAmount}, placement_due_date : {Null}]
    \cup [status : {"JOINED"}, doj : DojValues, salary : SalaryValues,
          placement_total_receivable : {Null}, placement_due_date : {Null}]
    \cup {[NoBody EXCEPT !.status = s] : s \in InterviewStatus \ {"JOINED"}}
    \cup [status : InterviewStatus \ {"JOINED"}, doj : DojValues, salary : SalaryValues,
          placement_total_receivable : {MaxAmount}, placement_due_date : {Null}]

JobCreate == [company_id : {1}, num_vacancies : 1..MaxVacancies, status : {"OPEN"}]

JobUpdate ==
    [num_vacancies : (0..MaxVacancies) \cup {ExplicitNull}, status : {"unset"},
     is_active : {"unset"}]
    \cup [num_vacancies : {Unset}, status : {"unset"}, is_active : {"false"}]
    \cup [num_vacancies : {0}, status : {"FULFILLED"}, is_active : {"unset"}]

(* fee_structure holds the total_fee of the fee structure and initial_payment
   the amount of the payment; Unset when the body has none *)
CandidateCreate ==
    [status : CandidateStatus, email : EmailValues \cup {Null},
     fee_structure : {Unset, MaxAmount}, initial_payment : {Unset, 1}]

(* a candidate of the FREE track, with no fee structure and no payment *)
FreeCandidateCreate ==
    {b \in CandidateCreate :
        /\ b.status = "FREE" /\ b.email = Null
        /\ b.fee_structure = Unset /\ b.initial_payment = Unset}

(* status and email are "unset" / Unset when the body does not carry them;
   fee_structure holds the total_fee of the fee structure, fee_due_date its
   due_date, initial_payment the amount of the payment *)
CandidateUpdate ==
    [status : CandidateStatus \cup {"unset"}, email : EmailValues \cup {Unset},
     fee_structure : {Unset}, fee_due_date : {Null}, initial_payment : {Unset, 1}]
    \cup [status : CandidateStatus \cup {"unset"}, email : EmailValues \cup {Unset},
          fee_structure : {1}, fee_due_date : DueValues,
          initial_payment : {Unset, 1}]

(* an update that carries no field *)
EmptyCandidateUpdate ==
    {b \in CandidateUpdate :
        /\ b.status = "unset" /\ b.email = Unset
        /\ b.fee_structure = Unset /\ b.initial_payment = Unset}

(* the public form: no fee structure and no payment *)
CandidatePublicCreate == [status : CandidateStatus, email : EmailValues \cup {Null}]

InterviewCreate ==
    [company_id : CompanySlots, job_id : JobIds, candidate_id : CandIds,
     status : {"SCHEDULED", "JOINED"}]

InterviewUpdate ==
    [job_id : JobIds, candidate_id : {Unset}, status : {"unset"}, is_active : {"unset"}]
    \cup [job_id : {Unset}, candidate_id : CandIds, status : {"unset"}, is_active : {"unset"}]
    \cup [job_id : {Unset}, candidate_id : {Unset}, status : InterviewStatus,
          is_active : {"unset"}]
    \cup [job_id : {Unset}, candidate_id : {Unset}, status : {"unset"},
          is_active : {"false", "true"}]

-----------------------------------------------------------------------------
(* Sessions and responses *)

IdleTxn == [pc |-> "idle", iid |-> Null, body |-> NoBody, iv |-> NoIv, job |-> NoJob,
            cand |-> NoCand, add_joined |-> FALSE, add_income |-> FALSE, pid |-> Null,
            code |-> 0]

NoResp == [op |-> "none", code |-> 0, id |-> Null, placement_income_id |-> Null]

Response(op, code, id, pid) == [op |-> op, code |-> code, id |-> id, placement_income_id |-> pid]

Fail(t, code) == [t EXCEPT !.pc = "done", !.code = code]

-----------------------------------------------------------------------------
(* update_interview_status: PATCH /interviews/{id}/status *)

(* variant: the vacancy check runs before the employment check *)
JoinPreconditionCode_VacancyFirst(body, job, cand) ==
    IF body.doj = Null \/ body.salary = Null THEN HTTP_400_BAD_REQUEST
    ELSE IF body.placement_total_receivable = Null THEN HTTP_400_BAD_REQUEST
    ELSE IF job.num_vacancies <= 0 THEN HTTP_400_BAD_REQUEST
    ELSE IF cand.employment_status = "EMPLOYED" THEN HTTP_409_CONFLICT
    ELSE 0

(* variant: the vacancy check left out *)
JoinPreconditionCode_NoVacancyCheck(body, job, cand) ==
    IF body.doj = Null \/ body.salary = Null THEN HTTP_400_BAD_REQUEST
    ELSE IF body.placement_total_receivable = Null THEN HTTP_400_BAD_REQUEST
    ELSE IF cand.employment_status = "EMPLOYED" THEN HTTP_409_CONFLICT
    ELSE 0

(* variant: the employment check left out *)
JoinPreconditionCode_NoEmployedCheck(body, job, cand) ==
    IF body.doj = Null \/ body.salary = Null THEN HTTP_400_BAD_REQUEST
    ELSE IF body.placement_total_receivable = Null THEN HTTP_400_BAD_REQUEST
    ELSE IF job.num_vacancies <= 0 THEN HTTP_400_BAD_REQUEST
    ELSE 0

(* The JOINED preconditions that need only the loaded rows; 0 when they pass *)
JoinPreconditionCode(body, job, cand) ==
    IF body.doj = Null \/ body.salary = Null THEN HTTP_400_BAD_REQUEST
    ELSE IF body.placement_total_receivable = Null THEN HTTP_400_BAD_REQUEST
    ELSE IF cand.employment_status = "EMPLOYED" THEN HTTP_409_CONFLICT
    ELSE IF job.num_vacancies <= 0 THEN HTTP_400_BAD_REQUEST
    ELSE 0

(* variant: the side effects run whatever the target status *)
IsJoined_Always(body) == TRUE

(* line 153: the target status is JOINED *)
IsJoined(body) == body.status = "JOINED"

(* variant: a soft-deleted interview is loaded like an active one *)
UIS_Load_DeletedToo(S, iid, body) ==
    LET t0 == [IdleTxn EXCEPT !.iid = iid, !.body = body]
        iv == S.ivs[iid]
    IN  IF ~iv.exists THEN Fail(t0, HTTP_404_NOT_FOUND)
        ELSE LET job == S.jobs[iv.job_id] IN
             IF ~job.exists \/ ~job.is_active THEN Fail(t0, HTTP_404_NOT_FOUND)
             ELSE LET cand == S.cands[iv.candidate_id] IN
                  IF ~cand.exists \/ ~cand.is_active THEN Fail(t0, HTTP_404_NOT_FOUND)
                  ELSE LET t1 == [t0 EXCEPT !.iv = iv, !.job = job, !.cand = cand] IN
                       IF IsJoined(body)
                       THEN LET c == JoinPreconditionCode(body, job, cand) IN
                            IF c # 0 THEN Fail(t1, c) ELSE [t1 EXCEPT !.pc = "exists"]
                       ELSE [t1 EXCEPT !.pc = "commit"]

(* lines 137-139: session.get of the interview, from the store as it is at
   this round trip *)
UIS_GetInterview(S, iid, body) ==
    LET t0 == [IdleTxn EXCEPT !.iid = iid, !.body = body]
        iv == S.ivs[iid]
    IN  IF ~iv.exists \/ ~iv.is_active THEN Fail(t0, HTTP_404_NOT_FOUND)
        ELSE [t0 EXCEPT !.iv = iv, !.pc = "get_job"]

(* lines 141-143: session.get of the job of the loaded interview *)
UIS_GetJob(S, t) ==
    LET job == S.jobs[t.iv.job_id]
    IN  IF ~job.exists \/ ~job.is_active THEN Fail(t, HTTP_404_NOT_FOUND)
        ELSE [t EXCEPT !.job = job, !.pc = "get_candidate"]

(* lines 145-176: session.get of the candidate of the loaded interview, then
   the checks on the loaded rows, which need no further round trip *)
UIS_GetCandidate(S, t) ==
    LET cand == S.cands[t.iv.candidate_id]
    IN  IF ~cand.exists \/ ~cand.is_active THEN Fail(t, HTTP_404_NOT_FOUND)
        ELSE LET t1 == [t EXCEPT !.cand = cand] IN
             IF IsJoined(t.body)
             THEN LET c == JoinPreconditionCode(t.body, t.job, cand) IN
                  IF c # 0 THEN Fail(t1, c) ELSE [t1 EXCEPT !.pc = "exists"]
             ELSE [t1 EXCEPT !.pc = "commit"]

(* the three reads against one store: the load of a request that no other
   request interrupts *)
UIS_Load(S, iid, body) ==
    LET t1 == UIS_GetInterview(S, iid, body)
        t2 == IF t1.pc = "get_job" THEN UIS_GetJob(S, t1) ELSE t1
    IN  IF t2.pc = "get_candidate" THEN UIS_GetCandidate(S, t2) ELSE t2

(* the count of active joining rows of the pair, read from the committed store *)
ActiveJoined(S, jid, cid) ==
    {k \in 1..Len(S.joined) : /\ S.joined[k].is_active
                              /\ S.joined[k].job_id = jid
                              /\ S.joined[k].candidate_id = cid}

already_joined(S, jid, cid) == Cardinality(ActiveJoined(S, jid, cid)) > 0

UIS_Exists(S, t) ==
    IF already_joined(S, t.iv.job_id, t.iv.candidate_id)
    THEN Fail(t, HTTP_409_CONFLICT)
    ELSE [t EXCEPT !.pc = "income", !.add_joined = TRUE]

(* variant: the receivable query finds nothing *)
existing_income_None(S, iid) == {}

(* the active receivables of the interview, read from the committed store *)
existing_income(S, iid) ==
    {k \in 1..Len(S.incomes) : S.incomes[k].is_active /\ S.incomes[k].interview_id = iid}

(* .first() of an unordered select: any matching row, Null when there is none *)
IncomePicks(S, iid) == IF existing_income(S, iid) = {} THEN {Null} ELSE existing_income(S, iid)

UIS_Income(S, t, pick) ==
    IF pick = Null
    THEN [t EXCEPT !.pc = "commit", !.add_income = TRUE]
    ELSE [t EXCEPT !.pc = "commit", !.pid = pick]

(* variant: the receivable starts with nothing left to pay *)
PlacementIncome_ZeroBalance(iv_id, iv, body) ==
    [interview_id |-> iv_id, candidate_id |-> iv.candidate_id, job_id |-> iv.job_id,
     total_receivable |-> body.placement_total_receivable,
     total_received |-> 0,
     balance |-> 0,
     due_date |-> IF body.placement_due_date # Null THEN body.placement_due_date
                  ELSE body.doj,
     is_active |-> TRUE]

(* variant: the receivable always falls due on the joining date *)
PlacementIncome_DueOnJoining(iv_id, iv, body) ==
    [interview_id |-> iv_id, candidate_id |-> iv.candidate_id, job_id |-> iv.job_id,
     total_receivable |-> body.placement_total_receivable,
     total_received |-> 0,
     balance |-> body.placement_total_receivable,
     due_date |-> body.doj,
     is_active |-> TRUE]

PlacementIncome(iv_id, iv, body) ==
    [interview_id |-> iv_id, candidate_id |-> iv.candidate_id, job_id |-> iv.job_id,
     total_receivable |-> body.placement_total_receivable,
     total_received |-> 0,
     balance |-> body.placement_total_receivable,
     due_date |-> IF body.placement_due_date # Null THEN body.placement_due_date
                  ELSE body.doj,
     is_active |-> TRUE]

(* variant: the vacancy is not taken *)
NewVacancies_NoDecrement(n) == n

(* variant: a join closes the job whatever it had left *)
NewVacancies_Zero(n) == 0

NewVacancies(n) == Max(0, n - 1)

(* the loaded job after lines 234-236 *)
JoinedJob(job) ==
    LET n == NewVacancies(job.num_vacancies) IN
    [job EXCEPT !.num_vacancies = n,
                !.status = IF n = 0 THEN "FULFILLED" ELSE job.status]

(* variant: the candidate is left as loaded *)
JoinedCandidate_Unchanged(cand) == cand

JoinedCandidate(cand) == [cand EXCEPT !.employment_status = "EMPLOYED"]

(* The unit of work writes the attributes whose value differs from the one
   the session loaded; every other column keeps what the store holds. *)
FlushJob(cur, old, new) ==
    [cur EXCEPT !.num_vacancies = IF new.num_vacancies # old.num_vacancies
                                  THEN new.num_vacancies ELSE cur.num_vacancies,
                !.status = IF new.status # old.status THEN new.status ELSE cur.status]

FlushCandidate(cur, old, new) ==
    [cur EXCEPT !.employment_status = IF new.employment_status # old.employment_status
                                      THEN new.employment_status
                                      ELSE cur.employment_status]

FlushInterviewStatus(cur, old, st) ==
    [cur EXCEPT !.status = IF st # old.status THEN st ELSE cur.status]

(* lines 234-247: the assignments, the commit and the response *)
UIS_Commit(S, t) ==
    LET jid == t.iv.job_id
        cid == t.iv.candidate_id
        isJoin == IsJoined(t.body)
        S1 == IF isJoin
              THEN [S EXCEPT !.jobs[jid] = FlushJob(S.jobs[jid], t.job, JoinedJob(t.job)),
                             !.cands[cid] = FlushCandidate(S.cands[cid], t.cand,
                                                           JoinedCandidate(t.cand))]
              ELSE S
        S2 == IF t.add_joined
              THEN [S1 EXCEPT !.joined = Append(S1.joined,
                                   Joined_candidates(jid, cid, t.body.doj, t.body.salary))]
              ELSE S1
        S3 == IF t.add_income
              THEN [S2 EXCEPT !.incomes = Append(S2.incomes,
                                                 PlacementIncome(t.iid, t.iv, t.body))]
              ELSE S2
        S4 == [S3 EXCEPT !.ivs[t.iid] = FlushInterviewStatus(S3.ivs[t.iid], t.iv,
                                                             t.body.status)]
        pid == IF t.add_income THEN Len(S.incomes) + 1 ELSE t.pid
    IN  [db |-> S4,
         resp |-> Response("update_interview_status", HTTP_200_OK, t.iid, pid)]

(* the whole handler, run without interruption *)
UIS_Run(S, iid, body, pick) ==
    LET t1 == UIS_Load(S, iid, body)
        t2 == IF t1.pc = "exists" THEN UIS_Exists(S, t1) ELSE t1
        t3 == IF t2.pc = "income" THEN UIS_Income(S, t2, pick) ELSE t2
    IN  IF t3.pc = "commit" THEN UIS_Commit(S, t3)
        ELSE [db |-> S,
              resp |-> Response("update_interview_status", t3.code, iid, Null)]

update_interview_status(p, iid, body) ==
    /\ txn[p].pc = "idle"
    /\ \E pick \in IncomePicks(db, iid) :
          LET r == UIS_Run(db, iid, body, pick) IN
          /\ db' = r.db
          /\ resp' = [resp EXCEPT ![p] = r.resp]
    /\ UNCHANGED txn

-----------------------------------------------------------------------------
(* Jobs: POST /jobs, PUT /jobs/{id}, PATCH /jobs/{id}/status *)

create_job(p, body) ==
    /\ txn[p].pc = "idle"
    /\ FreeIds(db.jobs, JobIds) # {}
    /\ LET jid == Min(FreeIds(db.jobs, JobIds)) IN
       /\ db' = [db EXCEPT !.jobs[jid] = Job(body.company_id, body.num_vacancies, body.status)]
       /\ resp' = [resp EXCEPT ![p] = NoResp]
    /\ UNCHANGED txn

(* the loaded job after the setattr loop and the status assignment *)
UpdatedJob(job, body) ==
    [job EXCEPT !.num_vacancies = IF body.num_vacancies = Unset THEN job.num_vacancies
                                  ELSE body.num_vacancies,
                !.status = IF body.status = "unset" THEN job.status ELSE body.status,
                !.is_active = IF body.is_active = "unset" THEN job.is_active
                              ELSE body.is_active = "true"]

(* num_vacancies is NOT NULL: an explicit null makes the commit raise
   IntegrityError, which the handler turns into 409 after a rollback *)
UpdateJobCode(job, body) ==
    IF ~job.exists \/ ~job.is_active THEN HTTP_404_NOT_FOUND
    ELSE IF body.num_vacancies = ExplicitNull THEN HTTP_409_CONFLICT
    ELSE HTTP_200_OK

update_job(p, jid, body) ==
    /\ txn[p].pc = "idle"
    /\ LET code == UpdateJobCode(db.jobs[jid], body) IN
       /\ db' = IF code = HTTP_200_OK
                THEN [db EXCEPT !.jobs[jid] = UpdatedJob(db.jobs[jid], body)]
                ELSE db
       /\ resp' = [resp EXCEPT ![p] = NoResp]
    /\ UNCHANGED txn

update_job_status(p, jid, st) ==
    /\ txn[p].pc = "idle"
    /\ LET job == db.jobs[jid]
           code == IF ~job.exists \/ ~job.is_active THEN HTTP_404_NOT_FOUND
                   ELSE HTTP_200_OK IN
       /\ db' = IF code = HTTP_200_OK THEN [db EXCEPT !.jobs[jid].status = st] ELSE db
       /\ resp' = [resp EXCEPT ![p] = NoResp]
    /\ UNCHANGED txn

-----------------------------------------------------------------------------
(* Candidates: POST /candidates, DELETE /candidates/{id} *)

(* lines 125-128 *)
fee_payload(body) == IF body.status = "JOC" THEN body.fee_structure ELSE Unset

(* lines 130-132 *)
pay_payload(body) ==
    IF body.status \in {"REGISTERED", "JOC"} THEN body.initial_payment ELSE Unset

(* uq_candidates_email: the flush of line 138 fails on an email already held *)
EmailTaken(S, email) ==
    email # Null /\ \E c \in CandIds : S.cands[c].exists /\ S.cands[c].email = email

(* variant: the initial payment is not asked for *)
CreateCandidateCode_NoPaymentCheck(S, body) ==
    IF body.status = "JOC" /\ fee_payload(body) = Unset THEN HTTP_400_BAD_REQUEST
    ELSE IF EmailTaken(S, body.email) THEN HTTP_409_CONFLICT
    ELSE HTTP_200_OK

CreateCandidateCode(S, body) ==
    IF body.status = "JOC" /\ fee_payload(body) = Unset THEN HTTP_400_BAD_REQUEST
    ELSE IF body.status \in {"REGISTERED", "JOC"} /\ pay_payload(body) = Unset
         THEN HTTP_400_BAD_REQUEST
    ELSE IF EmailTaken(S, body.email) THEN HTTP_409_CONFLICT
    ELSE HTTP_200_OK

(* the rows committed at line 161 *)
CreatedCandidate(S, cid, body, now) ==
    [S EXCEPT !.cands[cid] = Candidate(body.status, body.email),
              !.joc_structure_fees =
                  IF fee_payload(body) # Unset
                  THEN Append(@, JocStructureFee(cid, fee_payload(body), Null))
                  ELSE @,
              !.candidate_payments =
                  IF pay_payload(body) # Unset
                  THEN Append(@, CandidatePayment(cid, pay_payload(body), 1, now, TRUE))
                  ELSE @]

create_candidate(p, body) ==
    /\ txn[p].pc = "idle"
    /\ FreeIds(db.cands, CandIds) # {}
    /\ LET cid == Min(FreeIds(db.cands, CandIds))
           code == CreateCandidateCode(db, body) IN
       /\ resp' = [resp EXCEPT ![p] = Response("create_candidate", code,
                                               IF code = HTTP_200_OK THEN cid ELSE Null,
                                               Null)]
       /\ db' \in IF code = HTTP_200_OK
                  THEN {CreatedCandidate(db, cid, body, now) : now \in StampValues}
                  ELSE {db}
    /\ UNCHANGED txn

(* variant: the soft delete also frees the candidate *)
DeletedCandidate_Unemployed(cand) ==
    [cand EXCEPT !.is_active = FALSE, !.employment_status = "UNEMPLOYED"]

(* the loaded candidate after line 309 *)
DeletedCandidate(cand) == [cand EXCEPT !.is_active = FALSE]

(* variant: only a missing row is refused *)
DeleteCandidateCode_MissingOnly(cand) ==
    IF ~cand.exists THEN HTTP_404_NOT_FOUND ELSE HTTP_200_OK

(* lines 305-307 *)
DeleteCandidateCode(cand) ==
    IF ~cand.exists \/ ~cand.is_active THEN HTTP_404_NOT_FOUND ELSE HTTP_200_OK

delete_candidate(p, cid) ==
    /\ txn[p].pc = "idle"
    /\ LET cand == db.cands[cid]
           code == DeleteCandidateCode(cand) IN
       /\ db' = IF code = HTTP_200_OK THEN [db EXCEPT !.cands[cid] = DeletedCandidate(cand)]
                ELSE db
       /\ resp' = [resp EXCEPT ![p] = Response("delete_candidate", code, cid, Null)]
    /\ UNCHANGED txn

(* GET /candidates/{id}: the handler fills a missing employment_status on the
   loaded object before it serialises it; the column is NOT NULL with a
   default, so the stored value is never missing, and nothing is committed *)
ReadCandidate(cand) == cand

get_candidate(p, cid) ==
    /\ txn[p].pc = "idle"
    /\ db' = [db EXCEPT !.cands[cid] = ReadCandidate(db.cands[cid])]
    /\ resp' = [resp EXCEPT ![p] =
                  Response("get_candidate",
                           IF ~db.cands[cid].exists \/ ~db.cands[cid].is_active
                           THEN HTTP_404_NOT_FOUND ELSE HTTP_200_OK,
                           cid, Null)]
    /\ UNCHANGED txn

(* PUT /candidates/{id} *)

FeeRows(S, cid) ==
    {k \in 1..Len(S.joc_structure_fees) : S.joc_structure_fees[k].candidate_id = cid}

(* candidate.fee_structure, a scalar relationship: Null when the candidate has
   no fee row *)
LoadedFee(S, cid) == IF FeeRows(S, cid) = {} THEN Null ELSE Min(FeeRows(S, cid))

(* the loaded candidate after the setattr loop of lines 229-235 *)
UpdatedCandidate(cand, body) ==
    [cand EXCEPT !.status = IF body.status = "unset" THEN cand.status ELSE body.status,
                 !.email = IF body.email = Unset THEN cand.email ELSE body.email]

effective_status(cand, body) == UpdatedCandidate(cand, body).status

(* variant: a fee structure is accepted on the REGISTERED track *)
UpdateCandidateCode_FeeForRegistered(cand, body) ==
    IF ~cand.exists \/ ~cand.is_active THEN HTTP_404_NOT_FOUND
    ELSE IF /\ effective_status(cand, body) \in {"CAPS", "FREE"}
            /\ (body.fee_structure # Unset \/ body.initial_payment # Unset)
         THEN HTTP_400_BAD_REQUEST
    ELSE HTTP_200_OK

(* lines 226-250 *)
UpdateCandidateCode(cand, body) ==
    IF ~cand.exists \/ ~cand.is_active THEN HTTP_404_NOT_FOUND
    ELSE IF /\ effective_status(cand, body) \in {"CAPS", "FREE"}
            /\ (body.fee_structure # Unset \/ body.initial_payment # Unset)
         THEN HTTP_400_BAD_REQUEST
    ELSE IF effective_status(cand, body) = "REGISTERED" /\ body.fee_structure # Unset
         THEN HTTP_400_BAD_REQUEST
    ELSE HTTP_200_OK

(* line 224, the first statement of the execute: SELECT candidates; with no
   row there is nothing for the selectin loaders to load *)
UC_GetCandidate(S, cid, body) ==
    [pc |-> IF S.cands[cid].exists THEN "uc_get_fee" ELSE "uc_loaded",
     cid |-> cid, body |-> body, cand |-> S.cands[cid],
     fee |-> Null, fee_row |-> NoFee,
     code |-> UpdateCandidateCode(S.cands[cid], body)]

(* line 224, the selectin statement of Candidate.fee_structure: SELECT
   joc_structure_fees for the loaded candidate (the selectin statement of
   Candidate.payments loads rows the handler does not read); the checks of
   lines 226-250 follow without another read *)
UC_GetFee(S, t) ==
    [t EXCEPT !.pc = "uc_loaded",
              !.fee = LoadedFee(S, t.cid),
              !.fee_row = IF LoadedFee(S, t.cid) = Null THEN NoFee
                          ELSE S.joc_structure_fees[LoadedFee(S, t.cid)]]

(* lines 219-250: both statements against one store *)
UC_Load(S, cid, body) ==
    IF UC_GetCandidate(S, cid, body).pc = "uc_get_fee"
    THEN UC_GetFee(S, UC_GetCandidate(S, cid, body))
    ELSE UC_GetCandidate(S, cid, body)

(* the unit of work writes the attributes of the candidate that the setattr
   loop changed *)
FlushCandidateFields(cur, old, new) ==
    [cur EXCEPT !.status = IF new.status # old.status THEN new.status ELSE cur.status,
                !.email = IF new.email # old.email THEN new.email ELSE cur.email]

(* uq_candidates_email at the flush of the commit *)
EmailConflict(S, cid, email) ==
    email # Null /\ \E c \in CandIds \ {cid} : S.cands[c].exists /\ S.cands[c].email = email

(* variant: the fee row is rewritten with a fresh balance *)
UpdatedFee_ResetBalance(fee, body) ==
    [fee EXCEPT !.total_fee = body.fee_structure, !.balance = body.fee_structure,
                !.due_date = body.fee_due_date]

(* lines 273-275 *)
UpdatedFee(fee, body) ==
    [fee EXCEPT !.total_fee = body.fee_structure, !.due_date = body.fee_due_date]

(* the unit of work writes the attributes of the fee row whose value
   differs from the value the session loaded *)
FlushFee(cur, old, new) ==
    [cur EXCEPT !.total_fee = IF new.total_fee # old.total_fee THEN new.total_fee
                              ELSE cur.total_fee,
                !.balance = IF new.balance # old.balance THEN new.balance ELSE cur.balance,
                !.due_date = IF new.due_date # old.due_date THEN new.due_date
                             ELSE cur.due_date]

(* the fee rows after lines 262-275 and the commit: a new row when the
   session loaded none, the changed attributes of the loaded row otherwise *)
UC_Fees(S, t) ==
    IF effective_status(t.cand, t.body) = "JOC" /\ t.body.fee_structure # Unset
    THEN IF t.fee = Null
         THEN Append(S.joc_structure_fees,
                     JocStructureFee(t.cid, t.body.fee_structure, t.body.fee_due_date))
         ELSE [S.joc_structure_fees EXCEPT
                  ![t.fee] = FlushFee(S.joc_structure_fees[t.fee], t.fee_row,
                                      UpdatedFee(t.fee_row, t.body))]
    ELSE S.joc_structure_fees

(* the payments after lines 251-259 and 276-284 *)
UC_Payments(S, t, now) ==
    IF /\ effective_status(t.cand, t.body) \in {"REGISTERED", "JOC"}
       /\ t.body.initial_payment # Unset
    THEN Append(S.candidate_payments,
                CandidatePayment(t.cid, t.body.initial_payment, 1, now, TRUE))
    ELSE S.candidate_payments

(* lines 286-293: the answer of the commit *)
UC_CommitCode(S, t) ==
    IF t.code # HTTP_200_OK THEN t.code
    ELSE IF /\ UpdatedCandidate(t.cand, t.body).email # t.cand.email
            /\ EmailConflict(S, t.cid, UpdatedCandidate(t.cand, t.body).email)
         THEN HTTP_409_CONFLICT
    ELSE HTTP_200_OK

UC_Commit(S, t, now) ==
    IF UC_CommitCode(S, t) # HTTP_200_OK THEN S
    ELSE [S EXCEPT !.cands[t.cid] = FlushCandidateFields(S.cands[t.cid], t.cand,
                                                         UpdatedCandidate(t.cand, t.body)),
                   !.joc_structure_fees = UC_Fees(S, t),
                   !.candidate_payments = UC_Payments(S, t, now)]

update_candidate(p, cid, body) ==
    /\ txn[p].pc = "idle"
    /\ LET t == UC_Load(db, cid, body) IN
       /\ resp' = [resp EXCEPT ![p] = Response("update_candidate", UC_CommitCode(db, t),
                                               cid, Null)]
       /\ db' \in {UC_Commit(db, t, now) : now \in StampValues}
    /\ UNCHANGED txn

(* POST /public/candidates: the commit of line 203 is not guarded, and the
   constructor is given created_by, which the mapped class of
   models/candidate.py declares only if its mixin does *)
PublicCreateCandidateCode(S, body, created_by_mapped) ==
    IF ~created_by_mapped THEN HTTP_500_INTERNAL
    ELSE IF EmailTaken(S, body.email) THEN HTTP_500_INTERNAL
    ELSE HTTP_200_OK

public_create_candidate(p, body) ==
    /\ txn[p].pc = "idle"
    /\ FreeIds(db.cands, CandIds) # {}
    /\ \E created_by_mapped \in BOOLEAN :
          LET cid == Min(FreeIds(db.cands, CandIds))
              code == PublicCreateCandidateCode(db, body, created_by_mapped) IN
          /\ db' = IF code = HTTP_200_OK
                   THEN [db EXCEPT !.cands[cid] = Candidate(body.status, body.email)]
                   ELSE db
          /\ resp' = [resp EXCEPT ![p] = Response("public_create_candidate", code,
                                                  IF code = HTTP_200_OK THEN cid ELSE Null,
                                                  Null)]
    /\ UNCHANGED txn

(* POST /public/candidates/multipart: model_validate_json (line 215) raises on
   a payload that is not a CandidatePublicCreate, save_upload (lines 222-227)
   on an upload it cannot store, and nothing catches either; the stored
   uploads are rows of files, which the model does not hold; lines 229-231 are
   lines 201-203 *)
public_create_candidate_multipart(p, body) ==
    /\ txn[p].pc = "idle"
    /\ FreeIds(db.cands, CandIds) # {}
    /\ \E code \in {IF ~payload_valid \/ ~upload_stored THEN HTTP_500_INTERNAL
                    ELSE PublicCreateCandidateCode(db, body, created_by_mapped) :
                       payload_valid \in BOOLEAN, upload_stored \in BOOLEAN,
                       created_by_mapped \in BOOLEAN} :
          LET cid == Min(FreeIds(db.cands, CandIds)) IN
          /\ db' = IF code = HTTP_200_OK
                   THEN [db EXCEPT !.cands[cid] = Candidate(body.status, body.email)]
                   ELSE db
          /\ resp' = [resp EXCEPT ![p] = Response("public_create_candidate_multipart", code,
                                                  IF code = HTTP_200_OK THEN cid ELSE Null,
                                                  Null)]
    /\ UNCHANGED txn

-----------------------------------------------------------------------------
(* Companies: POST /public/addcompany/{user_id}, POST /public/companies/multipart
   and POST /public/companies *)

(* lines 122-139. models/company.py, schemas/company.py and core/response.py
   are not among the source files, and the handler gives is_active no value,
   so the build decides two things: the column ("default_true": the default
   of the other models; "not_null": the INSERT of the commit fails;
   "nullable": the row is stored without a flag and reads as inactive), and
   whether APIResponse[CompanyPublicRead] accepts the message dict that is
   returned after the commit *)
PublicCreateCompanyCode(user_valid, column, response_valid) ==
    IF ~user_valid THEN HTTP_400_BAD_REQUEST
    ELSE IF column = "not_null" THEN HTTP_500_INTERNAL
    ELSE IF ~response_valid THEN HTTP_500_INTERNAL
    ELSE HTTP_200_OK

(* session.add(company) and the commit: a new row *)
InsertCompany(S, act) ==
    [S EXCEPT !.companies[Min(FreeIds(S.companies, CompanySlots))] = Company(act)]

public_create_company(p, user_valid, column, response_valid) ==
    /\ txn[p].pc = "idle"
    /\ FreeIds(db.companies, CompanySlots) # {}
    /\ db' = IF user_valid /\ column # "not_null"
             THEN InsertCompany(db, column = "default_true")
             ELSE db
    /\ resp' = [resp EXCEPT ![p] =
                   Response("public_create_company",
                            PublicCreateCompanyCode(user_valid, column, response_valid),
                            Null, Null)]
    /\ UNCHANGED txn

(* line 149: model_validate_json raises on a payload that is not a
   CompanyPublicCreate and nothing catches it; the uploads of lines 153-158
   are rows of files, which the model does not hold *)
public_create_company_multipart(p, payload_valid) ==
    /\ txn[p].pc = "idle"
    /\ FreeIds(db.companies, CompanySlots) # {}
    /\ db' = IF payload_valid THEN InsertCompany(db, TRUE) ELSE db
    /\ resp' = [resp EXCEPT ![p] =
                   Response("public_create_company_multipart",
                            IF payload_valid THEN HTTP_200_OK ELSE HTTP_500_INTERNAL,
                            Null, Null)]
    /\ UNCHANGED txn

public_create_company_no_user(p) ==
    /\ txn[p].pc = "idle"
    /\ FreeIds(db.companies, CompanySlots) # {}
    /\ db' = InsertCompany(db, TRUE)
    /\ resp' = [resp EXCEPT ![p] = Response("public_create_company_no_user",
                                            HTTP_200_OK, Null, Null)]
    /\ UNCHANGED txn

(* Interviews: POST /interviews, PUT /interviews/{id}, DELETE /interviews/{id} *)

Active(row) == row.exists /\ row.is_active

(* session.get(Company, id): None for an id the table does not hold *)
LoadedCompany(S, c) == IF c \in DOMAIN S.companies THEN S.companies[c] ELSE NoCompany

(* lines 35-45: the company, the job and the candidate of the body, in that
   order *)
CreateInterviewCode(S, body) ==
    IF ~Active(LoadedCompany(S, body.company_id)) THEN HTTP_404_NOT_FOUND
    ELSE IF ~Active(S.jobs[body.job_id]) THEN HTTP_404_NOT_FOUND
    ELSE IF ~Active(S.cands[body.candidate_id]) THEN HTTP_404_NOT_FOUND
    ELSE HTTP_200_OK

create_interview(p, body) ==
    /\ txn[p].pc = "idle"
    /\ FreeIds(db.ivs, IvIds) # {}
    /\ LET iid == Min(FreeIds(db.ivs, IvIds))
           code == CreateInterviewCode(db, body) IN
       /\ db' = IF code = HTTP_200_OK
                THEN [db EXCEPT !.ivs[iid] = Interview(body.job_id, body.candidate_id,
                                                       body.status)]
                ELSE db
       /\ resp' = [resp EXCEPT ![p] = NoResp]
    /\ UNCHANGED txn

(* the loaded interview after the setattr loop; None values are skipped *)
UpdatedInterview(iv, body) ==
    [iv EXCEPT !.job_id = IF body.job_id = Unset THEN iv.job_id ELSE body.job_id,
               !.candidate_id = IF body.candidate_id = Unset THEN iv.candidate_id
                                ELSE body.candidate_id,
               !.status = IF body.status = "unset" THEN iv.status ELSE body.status,
               !.is_active = IF body.is_active = "unset" THEN iv.is_active
                             ELSE body.is_active = "true"]

(* job_id and candidate_id are foreign keys: a row that does not exist makes
   the commit raise IntegrityError, which this handler does not catch *)
UpdateInterviewCode(S, iv, body) ==
    IF ~iv.exists \/ ~iv.is_active THEN HTTP_404_NOT_FOUND
    ELSE IF body.job_id # Unset /\ ~S.jobs[body.job_id].exists THEN HTTP_500_INTERNAL
    ELSE IF body.candidate_id # Unset /\ ~S.cands[body.candidate_id].exists
         THEN HTTP_500_INTERNAL
    ELSE HTTP_200_OK

update_interview(p, iid, body) ==
    /\ txn[p].pc = "idle"
    /\ LET code == UpdateInterviewCode(db, db.ivs[iid], body) IN
       /\ db' = IF code = HTTP_200_OK
                THEN [db EXCEPT !.ivs[iid] = UpdatedInterview(db.ivs[iid], body)]
                ELSE db
       /\ resp' = [resp EXCEPT ![p] = NoResp]
    /\ UNCHANGED txn

delete_interview(p, iid) ==
    /\ txn[p].pc = "idle"
    /\ LET iv == db.ivs[iid]
           code == IF ~iv.exists \/ ~iv.is_active THEN HTTP_404_NOT_FOUND
                   ELSE HTTP_200_OK IN
       /\ db' = IF code = HTTP_200_OK THEN [db EXCEPT !.ivs[iid].is_active = FALSE] ELSE db
       /\ resp' = [resp EXCEPT ![p] = NoResp]
    /\ UNCHANGED txn

-----------------------------------------------------------------------------
(* Placement-income installments *)

PostedIncome(inc, amount) ==
    [inc EXCEPT !.total_received = inc.total_received + amount,
                !.balance = inc.balance - amount]

PostInstallmentCode(S, pid, amount) ==
    IF pid > Len(S.incomes) THEN HTTP_404_NOT_FOUND
    ELSE IF ~S.incomes[pid].is_active THEN HTTP_404_NOT_FOUND
    ELSE IF amount > S.incomes[pid].balance THEN HTTP_409_CONFLICT
    ELSE HTTP_200_OK

post_installment(p, pid, amount) ==
    /\ txn[p].pc = "idle"
    /\ LET code == PostInstallmentCode(db, pid, amount) IN
       /\ db' = IF code = HTTP_200_OK
                THEN [db EXCEPT !.incomes[pid] = PostedIncome(db.incomes[pid], amount)]
                ELSE db
       /\ resp' = [resp EXCEPT ![p] = NoResp]
    /\ UNCHANGED txn

-----------------------------------------------------------------------------
(* Spec: requests served one at a time *)

Init ==
    /\ nops = 0
    /\ db = EmptyDb
    /\ txn = [p \in Procs |-> IdleTxn]
    /\ resp = [p \in Procs |-> NoResp]

Next ==
    /\ nops < MaxOps
    /\ nops' = nops + 1
    /\ \E p \in SeqProcs :
       \/ \E body \in JobCreate : create_job(p, body)
       \/ \E jid \in JobIds, body \in JobUpdate : update_job(p, jid, body)
       \/ \E jid \in JobIds, st \in JobStatus : update_job_status(p, jid, st)
       \/ \E body \in FreeCandidateCreate : create_candidate(p, body)
       \/ \E cid \in CandIds : delete_candidate(p, cid)
       \/ \E cid \in CandIds, body \in EmptyCandidateUpdate : update_candidate(p, cid, body)
       \/ \E cid \in CandIds : get_candidate(p, cid)
       \/ \E user_valid \in BOOLEAN, column \in {"default_true", "not_null", "nullable"},
             response_valid \in BOOLEAN :
             public_create_company(p, user_valid, column, response_valid)
       \/ \E payload_valid \in BOOLEAN : public_create_company_multipart(p, payload_valid)
       \/ public_create_company_no_user(p)
       \/ \E body \in InterviewCreate : create_interview(p, body)
       \/ \E iid \in IvIds, body \in InterviewUpdate : update_interview(p, iid, body)
       \/ \E iid \in IvIds : delete_interview(p, iid)
       \/ \E iid \in IvIds, body \in InterviewStatusUpdate :
             update_interview_status(p, iid, body)
       \/ \E pid \in 1..Cardinality(IvIds), amount \in 1..MaxAmount :
             post_installment(p, pid, amount)

Spec == Init /\ [][Next]_vars

-----------------------------------------------------------------------------
(* SpecPay: the placement transition and the receivable, one request at a
   time: the calls that create, retarget and join interviews and post
   installments *)

PayInterviewCreate == {b \in InterviewCreate : b.status = "SCHEDULED"}

PayInterviewUpdate == {b \in InterviewUpdate : b.candidate_id # Unset}

PayJobCreate == {b \in JobCreate : b.num_vacancies = MaxVacancies}

PayStatusUpdate ==
    {b \in InterviewStatusUpdate :
        b.placement_due_date = Null /\ (b.status = "JOINED" \/ b.doj = Null)}

NextPay ==
    /\ nops < MaxOpsPay
    /\ nops' = nops + 1
    /\ \E p \in SeqProcs :
       \/ \E body \in PayJobCreate : create_job(p, body)
       \/ \E body \in FreeCandidateCreate : create_candidate(p, body)
       \/ \E body \in PayInterviewCreate : create_interview(p, body)
       \/ \E iid \in IvIds, body \in PayInterviewUpdate : update_interview(p, iid, body)
       \/ \E iid \in IvIds, body \in PayStatusUpdate :
             update_interview_status(p, iid, body)
       \/ \E pid \in 1..Cardinality(IvIds), amount \in 1..MaxAmount :
             post_installment(p, pid, amount)

SpecPay == Init /\ [][NextPay]_vars

-----------------------------------------------------------------------------
(* SpecConc: two sessions; update_interview_status yields at each store round
   trip (the session.get calls, the count query, the receivable query, the
   commit), and what it read earlier stays in its session *)

Finish(p, t) ==
    /\ txn' = [txn EXCEPT ![p] = IF t.pc = "done" THEN IdleTxn ELSE t]
    /\ resp' = IF t.pc = "done"
               THEN [resp EXCEPT ![p] = Response("update_interview_status", t.code,
                                                 t.iid, Null)]
               ELSE resp

UIS_GetInterviewStep(p, iid, body) ==
    /\ txn[p].pc = "idle"
    /\ nops < MaxOpsConc
    /\ nops' = nops + 1
    /\ Finish(p, UIS_GetInterview(db, iid, body))
    /\ UNCHANGED db

UIS_GetJobStep(p) ==
    /\ txn[p].pc = "get_job"
    /\ Finish(p, UIS_GetJob(db, txn[p]))
    /\ UNCHANGED <<db, nops>>

UIS_GetCandidateStep(p) ==
    /\ txn[p].pc = "get_candidate"
    /\ Finish(p, UIS_GetCandidate(db, txn[p]))
    /\ UNCHANGED <<db, nops>>

UIS_ExistsStep(p) ==
    /\ txn[p].pc = "exists"
    /\ Finish(p, UIS_Exists(db, txn[p]))
    /\ UNCHANGED <<db, nops>>

UIS_IncomeStep(p) ==
    /\ txn[p].pc = "income"
    /\ \E pick \in IncomePicks(db, txn[p].iid) : Finish(p, UIS_Income(db, txn[p], pick))
    /\ UNCHANGED <<db, nops>>

UIS_CommitStep(p) ==
    /\ txn[p].pc = "commit"
    /\ LET r == UIS_Commit(db, txn[p]) IN
       /\ db' = r.db
       /\ resp' = [resp EXCEPT ![p] = r.resp]
    /\ txn' = [txn EXCEPT ![p] = IdleTxn]
    /\ UNCHANGED nops

ConcInterviewCreate ==
    [company_id : {1}, job_id : JobIds, candidate_id : CandIds, status : {"SCHEDULED"}]

ConcStatusUpdate ==
    [status : {"JOINED"}, doj : DojValues, salary : SalaryValues,
     placement_total_receivable : {MaxAmount}, placement_due_date : {Null}]
    \cup {[NoBody EXCEPT !.status = "REJECTED"]}

NextConc ==
    \E p \in Procs :
       \/ /\ nops < MaxOpsConc
          /\ nops' = nops + 1
          /\ \/ \E body \in JobCreate : create_job(p, body)
             \/ \E body \in FreeCandidateCreate : create_candidate(p, body)
             \/ \E body \in ConcInterviewCreate : create_interview(p, body)
             \/ \E iid \in IvIds : delete_interview(p, iid)
       \/ \E iid \in IvIds, body \in ConcStatusUpdate : UIS_GetInterviewStep(p, iid, body)
       \/ UIS_GetJobStep(p)
       \/ UIS_GetCandidateStep(p)
       \/ UIS_ExistsStep(p)
       \/ UIS_IncomeStep(p)
       \/ UIS_CommitStep(p)

SpecConc == Init /\ [][NextConc]_vars

-----------------------------------------------------------------------------
(* Payment ledger: GET /payments/ledger *)

DefaultLimit == 20

LedgerSources == {"COMPANY_PAYMENT", "CANDIDATE_PAYMENT", "PLACEMENT_INCOME"}

(* rows of company_payments, candidate_payments and placement_income_payments;
   a row's id is its position in its table, and the position of a deleted
   company payment holds no row *)
NoCompanyPayment ==
    [exists |-> FALSE, company_id |-> Null, amount |-> 0, payment_date |-> Null,
     created_at |-> Null]

CompanyPayment(c, a, d, ts) ==
    [exists |-> TRUE, company_id |-> c, amount |-> a, payment_date |-> d, created_at |-> ts]

PlacementIncomePayment(pid, a, d, ts, act) ==
    [placement_income_id |-> pid, amount |-> a, paid_date |-> d, created_at |-> ts,
     is_active |-> act]

LedgerRow(id, src, d, a, ts, act, pid, company, cand, job, iv) ==
    [id |-> id, source |-> src, payment_date |-> d, amount |-> a, created_at |-> ts,
     is_active |-> act, placement_income_id |-> pid, company_id |-> company,
     candidate_id |-> cand, job_id |-> job, interview_id |-> iv]

(* lines 45-65: every company payment is projected as active *)
company_select(S) ==
    SelectSeq([k \in 1..Len(S.company_payments) |->
                  LET r == S.company_payments[k] IN
                  LedgerRow(k, "COMPANY_PAYMENT", r.payment_date, r.amount, r.created_at, TRUE,
                            Null, r.company_id, Null, Null, Null)],
              LAMBDA row : S.company_payments[row.id].exists)

(* lines 67-87: inner join on the candidate *)
candidate_select(S) ==
    SelectSeq([k \in 1..Len(S.candidate_payments) |->
                  LET r == S.candidate_payments[k] IN
                  LedgerRow(k, "CANDIDATE_PAYMENT", r.payment_date, r.amount, r.created_at,
                            r.is_active, Null, Null, r.candidate_id, Null, Null)],
              LAMBDA row : S.cands[row.candidate_id].exists)

(* lines 89-112: inner joins on the receivable, its job and its candidate *)
placement_select(S) ==
    LET joinable == SelectSeq([k \in 1..Len(S.income_payments) |->
                                  [id |-> k, r |-> S.income_payments[k]]],
                              LAMBDA e : /\ e.r.placement_income_id <= Len(S.incomes)
                                         /\ LET inc == S.incomes[e.r.placement_income_id] IN
                                            /\ S.jobs[inc.job_id].exists
                                            /\ S.cands[inc.candidate_id].exists)
    IN [k \in 1..Len(joinable) |->
           LET r == joinable[k].r
               inc == S.incomes[r.placement_income_id] IN
           LedgerRow(joinable[k].id, "PLACEMENT_INCOME", r.paid_date, r.amount, r.created_at,
                     r.is_active, r.placement_income_id, S.jobs[inc.job_id].company_id,
                     inc.candidate_id, inc.job_id, inc.interview_id)]

(* variant: the installments are left out of the union *)
union_all_NoPlacement(S) == company_select(S) \o candidate_select(S)

(* line 114 *)
union_all(S) == company_select(S) \o candidate_select(S) \o placement_select(S)

(* a comparison with a NULL column is never true *)
ColumnEquals(col, v) == col # Null /\ col = v

(* variant: the bounds of the ranges are exclusive *)
LedgerFilters_Exclusive(row, q) ==
    /\ q.source # {} => row.source \in q.source
    /\ q.start_date # Unset => row.payment_date > q.start_date
    /\ q.end_date # Unset => row.payment_date < q.end_date
    /\ q.company_id # Unset => ColumnEquals(row.company_id, q.company_id)
    /\ q.candidate_id # Unset => ColumnEquals(row.candidate_id, q.candidate_id)
    /\ q.job_id # Unset => ColumnEquals(row.job_id, q.job_id)
    /\ q.min_amount # Unset => row.amount > q.min_amount
    /\ q.max_amount # Unset => row.amount < q.max_amount
    /\ ~q.include_inactive => row.is_active

(* variant: the active flag is never looked at *)
LedgerFilters_AnyFlag(row, q) ==
    /\ q.source # {} => row.source \in q.source
    /\ q.start_date # Unset => row.payment_date >= q.start_date
    /\ q.end_date # Unset => row.payment_date <= q.end_date
    /\ q.company_id # Unset => ColumnEquals(row.company_id, q.company_id)
    /\ q.candidate_id # Unset => ColumnEquals(row.candidate_id, q.candidate_id)
    /\ q.job_id # Unset => ColumnEquals(row.job_id, q.job_id)
    /\ q.min_amount # Unset => row.amount >= q.min_amount
    /\ q.max_amount # Unset => row.amount <= q.max_amount

(* lines 116-134 *)
LedgerFilters(row, q) ==
    /\ q.source # {} => row.source \in q.source
    /\ q.start_date # Unset => row.payment_date >= q.start_date
    /\ q.end_date # Unset => row.payment_date <= q.end_date
    /\ q.company_id # Unset => ColumnEquals(row.company_id, q.company_id)
    /\ q.candidate_id # Unset => ColumnEquals(row.candidate_id, q.candidate_id)
    /\ q.job_id # Unset => ColumnEquals(row.job_id, q.job_id)
    /\ q.min_amount # Unset => row.amount >= q.min_amount
    /\ q.max_amount # Unset => row.amount <= q.max_amount
    /\ ~q.include_inactive => row.is_active

LedgerWhere(S, q) == SelectSeq(union_all(S), LAMBDA row : LedgerFilters(row, q))

RowOrders(n) == {f \in [1..n -> 1..n] : \A i, j \in 1..n : i # j => f[i] # f[j]}

(* variant: oldest first *)
OrderedBefore_Ascending(a, b) ==
    \/ a.payment_date < b.payment_date
    \/ a.payment_date = b.payment_date /\ a.created_at <= b.created_at

(* lines 136-139: payment_date desc, created_at desc; rows equal on both keys
   may come in either order *)
OrderedBefore(a, b) ==
    \/ a.payment_date > b.payment_date
    \/ a.payment_date = b.payment_date /\ a.created_at >= b.created_at

(* the orders in which the store may return the rows *)
OrderBy(rows) ==
    {[k \in 1..Len(rows) |-> rows[f[k]]] :
        f \in {g \in RowOrders(Len(rows)) :
                  \A k \in 1..(Len(rows) - 1) : OrderedBefore(rows[g[k]], rows[g[k + 1]])}}

(* line 142 *)
LimitOffset(ordered, page, limit) ==
    SubSeq(ordered, (page - 1) * limit + 1,
           IF page * limit < Len(ordered) THEN page * limit ELSE Len(ordered))

(* variant: the rows of the page are counted *)
LedgerTotal_OfPage(S, q) ==
    Len(LimitOffset(LedgerWhere(S, q), q.page, q.limit))

(* lines 144-146 *)
LedgerTotal(S, q) == Len(LedgerWhere(S, q))

LedgerResponse(q, items, total) ==
    [op |-> "list_payment_ledger", code |-> HTTP_200_OK, id |-> Null,
     placement_income_id |-> Null, query |-> q, items |-> items, total |-> total,
     page |-> q.page, limit |-> q.limit]

(* line 148: the pages the first query may return from store S *)
LedgerItems(S, q) ==
    {LimitOffset(ordered, q.page, q.limit) : ordered \in OrderBy(LedgerWhere(S, q))}

(* the handler when no other request commits between its two queries: the
   rows (line 148) and the count (line 151) are read from one store *)
list_payment_ledger(p, q) ==
    /\ txn[p].pc = "idle"
    /\ \E items \in LedgerItems(db, q) :
          resp' = [resp EXCEPT ![p] = LedgerResponse(q, items, LedgerTotal(db, q))]
    /\ UNCHANGED <<db, txn, nops>>

(* the handler one round trip at a time: the rows, then the count, each from
   the store as it is when the query runs *)
LedgerRowsStep(p, q) ==
    /\ txn[p].pc = "idle"
    /\ \E items \in LedgerItems(db, q) :
          txn' = [txn EXCEPT ![p] = [pc |-> "ledger_count", query |-> q, items |-> items]]
    /\ UNCHANGED <<db, resp, nops>>

LedgerCountStep(p) ==
    /\ txn[p].pc = "ledger_count"
    /\ resp' = [resp EXCEPT ![p] = LedgerResponse(txn[p].query, txn[p].items,
                                                  LedgerTotal(db, txn[p].query))]
    /\ txn' = [txn EXCEPT ![p] = IdleTxn]
    /\ UNCHANGED <<db, nops>>

(* PUT /payments/{payment_id} and DELETE /payments/{payment_id} *)

PaymentUpdate == [amount : {MaxAmount}, payment_date : DateValues \ (DojValues \cup DueValues)]

PaymentIds == 1..MaxRows

(* session.get(CompanyPayment, id): None for an id the table does not hold *)
LoadedPayment(S, id) ==
    IF id \in DOMAIN S.company_payments THEN S.company_payments[id] ELSE NoCompanyPayment

(* lines 164-166 and 190-192 *)
PaymentCode(S, id) ==
    IF ~LoadedPayment(S, id).exists THEN HTTP_404_NOT_FOUND ELSE HTTP_200_OK

(* lines 168-169 *)
UpdatedPayment(payment, body) ==
    [payment EXCEPT !.amount = body.amount, !.payment_date = body.payment_date]

update_payment(p, id, body) ==
    /\ txn[p].pc = "idle"
    /\ LET code == PaymentCode(db, id) IN
       /\ db' = IF code = HTTP_200_OK
                THEN [db EXCEPT !.company_payments[id] =
                                   UpdatedPayment(db.company_payments[id], body)]
                ELSE db
       /\ resp' = [resp EXCEPT ![p] = Response("update_payment", code, id, Null)]
    /\ UNCHANGED txn

(* lines 194-196: the row is removed from the table *)
delete_payment(p, id) ==
    /\ txn[p].pc = "idle"
    /\ LET code == PaymentCode(db, id) IN
       /\ db' = IF code = HTTP_200_OK
                THEN [db EXCEPT !.company_payments[id] = NoCompanyPayment]
                ELSE db
       /\ resp' = [resp EXCEPT ![p] = Response("delete_payment", code, id, Null)]
    /\ UNCHANGED txn

-----------------------------------------------------------------------------
(* SpecLedger: ledger queries over a store of payments *)

CompanyPaymentRows == {CompanyPayment(1, 1, 1, 1), CompanyPayment(1, 2, 2, 1)}

CandidatePaymentRows ==
    {CandidatePayment(1, 1, 2, 1, TRUE), CandidatePayment(1, 2, 2, 2, TRUE),
     CandidatePayment(1, 1, 1, 1, FALSE)}

PlacementIncomePaymentRows ==
    {PlacementIncomePayment(1, 2, 3, 2, TRUE), PlacementIncomePayment(1, 1, 2, 1, TRUE),
     PlacementIncomePayment(1, 2, 1, 1, FALSE)}

SeqsUpTo(S, n) == UNION {[1..k -> S] : k \in 0..n}

RECURSIVE ActiveAmount(_)
ActiveAmount(rows) ==
    IF rows = << >> THEN 0
    ELSE (IF Head(rows).is_active THEN Head(rows).amount ELSE 0) + ActiveAmount(Tail(rows))

(* job 1 of company 1 is open; candidate 2 has joined job 2 of company 2 through
   interview 1, which raised receivable 1 *)
LedgerStore(cp, kp, ip) ==
    [companies |-> Companies,
     jobs |-> [j \in JobIds |-> [exists |-> TRUE, is_active |-> TRUE, company_id |-> j,
                                 num_vacancies |-> 1, status |-> "OPEN"]],
     cands |-> [c \in CandIds |->
                   [exists |-> TRUE, is_active |-> TRUE, status |-> "FREE", email |-> Null,
                    employment_status |-> IF c = 2 THEN "EMPLOYED" ELSE "UNEMPLOYED"]],
     ivs |-> [i \in IvIds |-> IF i = 1 THEN Interview(2, 2, "JOINED") ELSE NoIv],
     joined |-> <<Joined_candidates(2, 2, 1, 1)>>,
     incomes |-> <<[interview_id |-> 1, candidate_id |-> 2, job_id |-> 2,
                    total_receivable |-> 2 * MaxRows,
                    total_received |-> ActiveAmount(ip),
                    balance |-> 2 * MaxRows - ActiveAmount(ip),
                    due_date |-> 1, is_active |-> TRUE]>>,
     joc_structure_fees |-> << >>,
     company_payments |-> cp,
     candidate_payments |-> kp,
     income_payments |-> ip]

LedgerStores ==
    {LedgerStore(t[1], t[2], t[3]) :
        t \in {u \in SeqsUpTo(CompanyPaymentRows, MaxRows)
                     \X SeqsUpTo(CandidatePaymentRows, MaxRows)
                     \X SeqsUpTo(PlacementIncomePaymentRows, MaxRows) :
                  Len(u[1]) + Len(u[2]) + Len(u[3]) <= MaxRows}}

NoFilters ==
    [page |-> 1, limit |-> DefaultLimit, source |-> {}, start_date |-> Unset,
     end_date |-> Unset, company_id |-> Unset, candidate_id |-> Unset, job_id |-> Unset,
     min_amount |-> Unset, max_amount |-> Unset, include_inactive |-> FALSE]

LedgerQueries ==
    {[NoFilters EXCEPT !.page = pg, !.limit = l, !.include_inactive = inc] :
        pg \in 1..MaxRows, l \in {1, 2, DefaultLimit}, inc \in BOOLEAN}
    \cup {[NoFilters EXCEPT !.source = s] :
            s \in {{"COMPANY_PAYMENT"}, {"CANDIDATE_PAYMENT", "PLACEMENT_INCOME"}}}
    \cup {[NoFilters EXCEPT !.start_date = d, !.end_date = e] :
            d \in {Unset, 2}, e \in {Unset, 2}}
    \cup {[NoFilters EXCEPT !.company_id = c] : c \in CompanyIds}
    \cup {[NoFilters EXCEPT !.candidate_id = c, !.include_inactive = inc] :
            c \in CandIds, inc \in BOOLEAN}
    \cup {[NoFilters EXCEPT !.job_id = j] : j \in JobIds}
    \cup {[NoFilters EXCEPT !.min_amount = lo, !.max_amount = hi] :
            lo \in {Unset, 0, 2}, hi \in {Unset, 1, 2}}

InitLedger ==
    /\ nops = 0
    /\ db \in LedgerStores
    /\ txn = [p \in Procs |-> IdleTxn]
    /\ resp = [p \in Procs |-> NoResp]

(* the same request for another page *)
OtherPage(q1, q2) == q2.page # q1.page /\ q2 = [q1 EXCEPT !.page = q2.page]

(* a client asks one question of the store and then reads other pages of it *)
NextLedger ==
    \E p \in SeqProcs, q \in LedgerQueries :
        /\ IF resp[p].op = "none" THEN TRUE ELSE OtherPage(resp[p].query, q)
        /\ list_payment_ledger(p, q)

SpecLedger == InitLedger /\ [][NextLedger]_vars

-----------------------------------------------------------------------------
(* SpecLedgerConc: client 1 reads the ledger one query at a time while
   client 2 updates and deletes company payments *)

ConcLedgerQueries ==
    {[NoFilters EXCEPT !.limit = l] : l \in {1, DefaultLimit}}
    \cup {[NoFilters EXCEPT !.min_amount = MaxAmount]}

InitLedgerConc ==
    /\ nops = 0
    /\ db \in {LedgerStore(cp, << >>, << >>) : cp \in SeqsUpTo(CompanyPaymentRows, 2)}
    /\ txn = [p \in Procs |-> IdleTxn]
    /\ resp = [p \in Procs |-> NoResp]

NextLedgerConc ==
    \/ \E q \in ConcLedgerQueries : LedgerRowsStep(1, q)
    \/ LedgerCountStep(1)
    \/ /\ nops < MaxLedgerWrites
       /\ nops' = nops + 1
       /\ \/ \E id \in PaymentIds, body \in PaymentUpdate : update_payment(2, id, body)
          \/ \E id \in PaymentIds : delete_payment(2, id)

SpecLedgerConc == InitLedgerConc /\ [][NextLedgerConc]_vars

-----------------------------------------------------------------------------
(* SpecCand: candidates are created, read and deleted, one request at a time *)

NextCand ==
    /\ nops < MaxOpsCand
    /\ nops' = nops + 1
    /\ \E p \in SeqProcs :
       \/ \E body \in CandidateCreate : create_candidate(p, body)
       \/ \E body \in CandidatePublicCreate : public_create_candidate(p, body)
       \/ \E body \in CandidatePublicCreate : public_create_candidate_multipart(p, body)
       \/ \E cid \in CandIds : get_candidate(p, cid)
       \/ \E cid \in CandIds : delete_candidate(p, cid)
       \/ \E cid \in CandIds, body \in CandidateUpdate :
             update_candidate(p, cid, body)

SpecCand == Init /\ [][NextCand]_vars

-----------------------------------------------------------------------------
(* SpecCandConc: two sessions; update_candidate yields at each statement of
   its execute (line 224) and at its commit (line 287) *)

UC_GetCandidateStep(p, cid, body) ==
    /\ txn[p].pc = "idle"
    /\ nops < MaxOpsCandConc
    /\ nops' = nops + 1
    /\ txn' = [txn EXCEPT ![p] = UC_GetCandidate(db, cid, body)]
    /\ UNCHANGED <<db, resp>>

UC_GetFeeStep(p) ==
    /\ txn[p].pc = "uc_get_fee"
    /\ txn' = [txn EXCEPT ![p] = UC_GetFee(db, txn[p])]
    /\ UNCHANGED <<db, resp, nops>>

UC_CommitStep(p) ==
    /\ txn[p].pc = "uc_loaded"
    /\ db' \in {UC_Commit(db, txn[p], now) : now \in StampValues}
    /\ resp' = [resp EXCEPT ![p] = Response("update_candidate", UC_CommitCode(db, txn[p]),
                                            txn[p].cid, Null)]
    /\ txn' = [txn EXCEPT ![p] = IdleTxn]
    /\ UNCHANGED nops

ConcCandidateCreate ==
    {b \in CandidateCreate :
        /\ b.initial_payment # Unset
        /\ b.status \in {"REGISTERED", "JOC"}}

(* the addresses of the concurrent updates: the one a candidate can be created
   with and another *)
ConcCandidateUpdate ==
    [status : {"JOC", "unset"}, email : EmailValues \cup {2, Unset},
     fee_structure : 1..MaxAmount, fee_due_date : DueValues,
     initial_payment : {Unset, 1}]

(* nops counts the requests; the later steps of a request are not counted *)
NextCandConc ==
    \E p \in Procs :
       \/ /\ nops < MaxOpsCandConc
          /\ nops' = nops + 1
          /\ \E body \in ConcCandidateCreate : create_candidate(p, body)
       \/ \E cid \in CandIds, body \in ConcCandidateUpdate :
             UC_GetCandidateStep(p, cid, body)
       \/ UC_GetFeeStep(p)
       \/ UC_CommitStep(p)

SpecCandConc == Init /\ [][NextCandConc]_vars

-----------------------------------------------------------------------------
(* SpecPlace: placements on a store that already holds two open jobs, two
   unemployed candidates and one scheduled interview, one request at a time;
   update_job leaves num_vacancies alone *)

PlaceJobUpdate == {b \in JobUpdate : b.num_vacancies = Unset}

PlaceStatusUpdate ==
    {b \in PayStatusUpdate :
        b.placement_total_receivable \in {MaxAmount, Null} /\ b.salary # Null}

InitPlace ==
    /\ nops = 0
    /\ txn = [p \in Procs |-> IdleTxn]
    /\ resp = [p \in Procs |-> NoResp]
    /\ \E n \in 1..MaxVacancies :
          db = [EmptyDb EXCEPT !.jobs = [j \in JobIds |->
                                           Job(1, IF j = 1 THEN n ELSE MaxVacancies, "OPEN")],
                               !.cands = [c \in CandIds |-> Candidate("FREE", Null)],
                               !.ivs[1] = Interview(1, 1, "SCHEDULED")]

NextPlace ==
    /\ nops < MaxOpsPlace
    /\ nops' = nops + 1
    /\ \E p \in SeqProcs :
       \/ \E jid \in JobIds, body \in PlaceJobUpdate : update_job(p, jid, body)
       \/ \E jid \in JobIds : update_job_status(p, jid, "DROPPED")
       \/ \E cid \in CandIds : delete_candidate(p, cid)
       \/ \E cid \in CandIds, body \in EmptyCandidateUpdate : update_candidate(p, cid, body)
       \/ \E body \in InterviewCreate : create_interview(p, body)
       \/ \E iid \in IvIds, body \in InterviewUpdate : update_interview(p, iid, body)
       \/ \E iid \in IvIds : delete_interview(p, iid)
       \/ \E iid \in IvIds, body \in PlaceStatusUpdate :
             update_interview_status(p, iid, body)

SpecPlace == InitPlace /\ [][NextPlace]_vars

-----------------------------------------------------------------------------
(* Vocabulary of the properties *)

JoinBodies == {b \in InterviewStatusUpdate : b.status = "JOINED"}

CompleteJoinBodies ==
    {b \in JoinBodies : b.doj # Null /\ b.salary # Null /\ b.placement_total_receivable # Null}

(* the last response of client p reports a successful transition to JOINED *)
JoinSucceeded(p) ==
    /\ resp[p].op = "update_interview_status"
    /\ resp[p].code = HTTP_200_OK
    /\ resp[p].placement_income_id # Null

JobOf(S, iid) == S.ivs[iid].job_id

CandOf(S, iid) == S.ivs[iid].candidate_id

(* the active joining rows of a (job, candidate) pair in store S *)
JoiningRows(S, jid, cid) ==
    {k \in DOMAIN S.joined : /\ S.joined[k].is_active
                             /\ S.joined[k].job_id = jid
                             /\ S.joined[k].candidate_id = cid}

(* the active receivables of an interview in store S *)
Receivables(S, iid) ==
    {k \in DOMAIN S.incomes : S.incomes[k].is_active /\ S.incomes[k].interview_id = iid}

(* interview, job and candidate of the call exist and are active *)
AllActive(S, iid) ==
    /\ Active(S.ivs[iid])
    /\ Active(S.jobs[JobOf(S, iid)])
    /\ Active(S.cands[CandOf(S, iid)])

(* the starting state of a markJoined that must succeed *)
JoinPre(S, iid) ==
    /\ AllActive(S, iid)
    /\ S.jobs[JobOf(S, iid)].num_vacancies >= 1
    /\ S.cands[CandOf(S, iid)].employment_status = "UNEMPLOYED"
    /\ JoiningRows(S, JobOf(S, iid), CandOf(S, iid)) = {}

(* the effects of markJoined on job, candidate, interview and joining rows,
   from store S to store T *)
JoinPost(S, T, iid) ==
    LET j == JobOf(S, iid)
        c == CandOf(S, iid)
        n == S.jobs[j].num_vacancies
    IN  /\ T.ivs[iid].status = "JOINED"
        /\ T.jobs[j].num_vacancies = n - 1
        /\ T.jobs[j].status = IF n - 1 = 0 THEN "FULFILLED" ELSE S.jobs[j].status
        /\ T.cands[c].employment_status = "EMPLOYED"
        /\ Cardinality(JoiningRows(T, j, c)) = 1

-----------------------------------------------------------------------------
(* C1 as stated: a markJoined from an active interview, an active job with
   n >= 1 vacancies, an active UNEMPLOYED candidate and no joining row of the
   pair leaves the interview JOINED, n-1 vacancies, the job FULFILLED iff
   n-1 = 0, the candidate EMPLOYED, one joining row of the pair, and exactly
   one active receivable of the interview whose balance equals its
   total_receivable *)
C1_JoinCommitsAllEffects_AsStated ==
    [][\A p \in SeqProcs, iid \in IvIds, body \in CompleteJoinBodies \cap PayStatusUpdate :
          (db.ivs[iid].exists /\ JoinPre(db, iid) /\ update_interview_status(p, iid, body))
          => /\ JoinPost(db, db', iid)
             /\ Cardinality(Receivables(db', iid)) = 1
             /\ \A k \in Receivables(db', iid) :
                   db'.incomes[k].balance = db'.incomes[k].total_receivable]_vars

(* C1 amended: the same, the receivable's balance equals its total_receivable
   (the payload value) when the call created it; a receivable the interview
   already had is the one that stays *)
C1_JoinCommitsAllEffects ==
    [][\A p \in SeqProcs, iid \in IvIds, body \in CompleteJoinBodies \cap PayStatusUpdate :
          (db.ivs[iid].exists /\ JoinPre(db, iid) /\ update_interview_status(p, iid, body))
          => /\ JoinPost(db, db', iid)
             /\ resp'[p].code = HTTP_200_OK
             /\ Cardinality(Receivables(db', iid)) = 1
             /\ Receivables(db, iid) = {}
                  => \A k \in Receivables(db', iid) :
                        /\ db'.incomes[k].total_receivable = body.placement_total_receivable
                        /\ db'.incomes[k].balance = db'.incomes[k].total_receivable]_vars

(* a join that left a vacancy behind, its receivable as the payload gave it *)
C1_Witness ==
    /\ JoinSucceeded(1)
    /\ db.ivs[resp[1].id].status = "JOINED"
    /\ db.jobs[JobOf(db, resp[1].id)].num_vacancies = 1
    /\ db.jobs[JobOf(db, resp[1].id)].status = "OPEN"
    /\ db.cands[CandOf(db, resp[1].id)].employment_status = "EMPLOYED"
    /\ Cardinality(JoiningRows(db, JobOf(db, resp[1].id), CandOf(db, resp[1].id))) = 1
    /\ db.incomes[resp[1].placement_income_id].balance = MaxAmount
    /\ db.incomes[resp[1].placement_income_id].total_receivable = MaxAmount

-----------------------------------------------------------------------------
(* C2: in every state, whatever the interleaving of the requests, a (job,
   candidate) pair has at most one active joining row *)
C2_AtMostOneActiveJoining ==
    \A jid \in JobIds, cid \in CandIds : Cardinality(JoiningRows(db, jid, cid)) <= 1

(* C3: two concurrent markJoined of the same (job, candidate) pair never both
   answer success *)
C3_SamePairNotBothJoined ==
    \A p \in Procs, q \in Procs :
       (p # q /\ JoinSucceeded(p) /\ JoinSucceeded(q))
       => <<JobOf(db, resp[p].id), CandOf(db, resp[p].id)>>
            # <<JobOf(db, resp[q].id), CandOf(db, resp[q].id)>>

(* C4: every markJoined that commits for a candidate the job has no joining
   row of takes a vacancy the store still has: the job's committed
   num_vacancies is at least 1 and the commit lowers it by 1, so two
   candidates never both join a job that had one vacancy *)
C4_JoinTakesAnAvailableVacancy ==
    [][\A p \in Procs :
          (/\ txn[p].pc = "commit"
           /\ txn[p].body.status = "JOINED"
           /\ JoiningRows(db, txn[p].iv.job_id, txn[p].iv.candidate_id) = {}
           /\ UIS_CommitStep(p))
          => /\ db.jobs[txn[p].iv.job_id].num_vacancies >= 1
             /\ db'.jobs[txn[p].iv.job_id].num_vacancies
                  = db.jobs[txn[p].iv.job_id].num_vacancies - 1]_vars

-----------------------------------------------------------------------------
(* the five effects of a markJoined of interview iid, from store S to store T:
   a joining row appended for its pair, a receivable of the interview, a
   vacancy taken, the candidate EMPLOYED, the interview JOINED *)
FiveEffects(S, T, iid, pid) ==
    LET j == JobOf(S, iid)
        c == CandOf(S, iid)
    IN  /\ Len(T.joined) = Len(S.joined) + 1
        /\ Len(T.joined) \in JoiningRows(T, j, c)
        /\ pid \in Receivables(T, iid)
        /\ T.jobs[j].num_vacancies = S.jobs[j].num_vacancies - 1
        /\ T.cands[c].employment_status = "EMPLOYED"
        /\ T.ivs[iid].status = "JOINED"

(* C5: a markJoined either answers success and all five effects are in the
   store, or answers an error and the store is as it was *)
C5_AllOrNothing ==
    [][\A p \in SeqProcs, iid \in IvIds, body \in JoinBodies :
          (/\ resp'[p].op = "update_interview_status"
           /\ resp'[p].id = iid
           /\ update_interview_status(p, iid, body))
          => \/ /\ resp'[p].code = HTTP_200_OK
                /\ db.ivs[iid].exists
                /\ FiveEffects(db, db', iid, resp'[p].placement_income_id)
             \/ /\ resp'[p].code # HTTP_200_OK
                /\ db' = db]_vars

(* a successful markJoined with its effects, after an earlier state without them *)
C5_Witness ==
    /\ JoinSucceeded(1)
    /\ Len(db.joined) = 1
    /\ Len(db.incomes) = 1
    /\ db.ivs[resp[1].id].status = "JOINED"
    /\ db.cands[CandOf(db, resp[1].id)].employment_status = "EMPLOYED"
    /\ db.jobs[JobOf(db, resp[1].id)].num_vacancies = 0

(* C6 as stated: on a job with num_vacancies = 0, a markJoined of an active
   interview of the job (its job and candidate active) answers 400 and
   changes nothing *)
C6_NoVacancyRejected_AsStated ==
    [][\A p \in SeqProcs, iid \in IvIds, body \in JoinBodies :
          (/\ db.ivs[iid].exists
           /\ AllActive(db, iid)
           /\ db.jobs[JobOf(db, iid)].num_vacancies = 0
           /\ update_interview_status(p, iid, body))
          => resp'[p].code = HTTP_400_BAD_REQUEST /\ db' = db]_vars

(* C6 amended: on a job with num_vacancies = 0, a markJoined of an interview
   of the job always fails and changes nothing; the answer is 400 when the
   interview, the job and the candidate are active and the candidate is not
   EMPLOYED *)
C6_NoVacancyRejected ==
    [][\A p \in SeqProcs, iid \in IvIds, body \in JoinBodies :
          (/\ db.ivs[iid].exists
           /\ db.jobs[JobOf(db, iid)].exists
           /\ db.jobs[JobOf(db, iid)].num_vacancies = 0
           /\ update_interview_status(p, iid, body))
          => /\ resp'[p].code # HTTP_200_OK
             /\ db' = db
             /\ (AllActive(db, iid)
                 /\ db.cands[CandOf(db, iid)].employment_status # "EMPLOYED")
                => resp'[p].code = HTTP_400_BAD_REQUEST]_vars

(* a markJoined refused with 400 on a job without vacancies whose candidate
   is free *)
C6_Witness ==
    /\ resp[1].op = "update_interview_status"
    /\ resp[1].code = HTTP_400_BAD_REQUEST
    /\ db.ivs[resp[1].id].exists
    /\ AllActive(db, resp[1].id)
    /\ db.jobs[JobOf(db, resp[1].id)].num_vacancies = 0
    /\ db.cands[CandOf(db, resp[1].id)].employment_status = "UNEMPLOYED"
    /\ db.ivs[resp[1].id].status = "SCHEDULED"

(* C7: the markJoined of an interview repeated right after it succeeded
   answers 409 and changes nothing *)
C7_RepeatIsConflict ==
    [][\A p \in SeqProcs, body \in CompleteJoinBodies :
          (JoinSucceeded(p) /\ update_interview_status(p, resp[p].id, body))
          => resp'[p].code = HTTP_409_CONFLICT /\ db' = db]_vars

(* the repeated call was refused with 409 on a job that has no vacancy left *)
C7_Witness ==
    /\ resp[1].op = "update_interview_status"
    /\ resp[1].code = HTTP_409_CONFLICT
    /\ db.ivs[resp[1].id].status = "JOINED"
    /\ db.cands[CandOf(db, resp[1].id)].employment_status = "EMPLOYED"
    /\ db.jobs[JobOf(db, resp[1].id)].num_vacancies = 0
    /\ Cardinality(JoiningRows(db, JobOf(db, resp[1].id), CandOf(db, resp[1].id))) = 1

(* C8: an interview never has more than one active receivable, and a
   markJoined of an interview that has one creates none, leaves it as it is
   and returns its id *)
C8_OneReceivablePerInterview ==
    [][/\ \A iid \in IvIds : Cardinality(Receivables(db', iid)) <= 1
       /\ \A p \in SeqProcs, iid \in IvIds, body \in CompleteJoinBodies \cap PayStatusUpdate :
             (/\ Receivables(db, iid) # {}
              /\ update_interview_status(p, iid, body)
              /\ resp'[p].code = HTTP_200_OK)
             => /\ db'.incomes = db.incomes
                /\ resp'[p].placement_income_id \in Receivables(db, iid)]_vars

(* a second markJoined of an interview went through and reused its receivable *)
C8_Witness ==
    /\ JoinSucceeded(1)
    /\ Len(db.joined) = 2
    /\ Len(db.incomes) = 1
    /\ db.incomes[1].interview_id = resp[1].id
    /\ resp[1].placement_income_id = 1

(* C9: a job with num_vacancies = 0 has status FULFILLED *)
C9_ZeroVacanciesFulfilled ==
    \A jid \in JobIds :
       (db.jobs[jid].exists /\ db.jobs[jid].num_vacancies = 0)
       => db.jobs[jid].status = "FULFILLED"

(* the step is a successful markJoined of an interview of job jid *)
JoinStepOf(jid) ==
    \E p \in SeqProcs, iid \in IvIds, body \in CompleteJoinBodies :
       /\ db.ivs[iid].exists
       /\ JobOf(db, iid) = jid
       /\ update_interview_status(p, iid, body)
       /\ resp'[p].code = HTTP_200_OK

(* the step is an update_job of job jid that carries num_vacancies *)
VacancyEditOf(jid) ==
    \E p \in SeqProcs, body \in JobUpdate :
       /\ body.num_vacancies \in 0..MaxVacancies
       /\ update_job(p, jid, body)
       /\ db'.jobs[jid].num_vacancies = body.num_vacancies

(* C10 as stated: num_vacancies of a job changes only by a successful
   markJoined, which lowers it by exactly 1 *)
C10_VacanciesOnlyByJoin_AsStated ==
    [][\A jid \in JobIds :
          (db.jobs[jid].exists /\ db'.jobs[jid].num_vacancies # db.jobs[jid].num_vacancies)
          => /\ JoinStepOf(jid)
             /\ db'.jobs[jid].num_vacancies = db.jobs[jid].num_vacancies - 1]_vars

(* C10 amended: num_vacancies of a job changes only by a successful
   markJoined of one of its interviews, which lowers it by exactly 1, or by
   an update_job that carries num_vacancies, which sets it to the payload
   value *)
C10_VacanciesOnlyByJoinOrEdit ==
    [][\A jid \in JobIds :
          (db.jobs[jid].exists /\ db'.jobs[jid].num_vacancies # db.jobs[jid].num_vacancies)
          => \/ /\ JoinStepOf(jid)
                /\ db'.jobs[jid].num_vacancies = db.jobs[jid].num_vacancies - 1
             \/ VacancyEditOf(jid)]_vars

(* a job that lost a vacancy to a join and whose vacancies an update_job
   then set to the most a job can have *)
C10_Witness ==
    \E jid \in JobIds :
       /\ db.jobs[jid].exists
       /\ db.jobs[jid].num_vacancies = MaxVacancies
       /\ Cardinality({k \in DOMAIN db.joined : db.joined[k].job_id = jid}) = 1

-----------------------------------------------------------------------------
(* the step is a successful markJoined of an interview of candidate cid *)
JoinStepOfCandidate(cid) ==
    \E p \in SeqProcs, iid \in IvIds, body \in CompleteJoinBodies :
       /\ db.ivs[iid].exists
       /\ CandOf(db, iid) = cid
       /\ update_interview_status(p, iid, body)
       /\ resp'[p].code = HTTP_200_OK

(* C11: the stored employment_status of a candidate changes only by a
   successful markJoined of one of the candidate's interviews, from
   UNEMPLOYED to EMPLOYED; every other request leaves it as it is *)
C11_EmploymentOnlyByJoin ==
    [][\A cid \in CandIds :
          (/\ db.cands[cid].exists
           /\ db'.cands[cid].employment_status # db.cands[cid].employment_status)
          => /\ JoinStepOfCandidate(cid)
             /\ db.cands[cid].employment_status = "UNEMPLOYED"
             /\ db'.cands[cid].employment_status = "EMPLOYED"]_vars

(* a candidate placed by a join and soft-deleted afterwards is still EMPLOYED *)
C11_Witness ==
    \E cid \in CandIds :
       /\ db.cands[cid].exists
       /\ ~db.cands[cid].is_active
       /\ db.cands[cid].employment_status = "EMPLOYED"
       /\ \E k \in DOMAIN db.joined : db.joined[k].candidate_id = cid

-----------------------------------------------------------------------------
PayloadComplete(body) ==
    body.doj # Null /\ body.salary # Null /\ body.placement_total_receivable # Null

(* the answer the stated order gives: payload, then job and candidate, then
   employment, vacancies and the joining row *)
StatedOrderCode(S, iid, body) ==
    IF ~Active(S.ivs[iid]) THEN HTTP_404_NOT_FOUND
    ELSE IF ~PayloadComplete(body) THEN HTTP_400_BAD_REQUEST
    ELSE IF ~AllActive(S, iid) THEN HTTP_404_NOT_FOUND
    ELSE IF S.cands[CandOf(S, iid)].employment_status = "EMPLOYED" THEN HTTP_409_CONFLICT
    ELSE IF S.jobs[JobOf(S, iid)].num_vacancies <= 0 THEN HTTP_400_BAD_REQUEST
    ELSE IF JoiningRows(S, JobOf(S, iid), CandOf(S, iid)) # {} THEN HTTP_409_CONFLICT
    ELSE HTTP_200_OK

(* the same with the lookups of interview, job and candidate first *)
LookupFirstCode(S, iid, body) ==
    IF ~AllActive(S, iid) THEN HTTP_404_NOT_FOUND
    ELSE IF ~PayloadComplete(body) THEN HTTP_400_BAD_REQUEST
    ELSE IF S.cands[CandOf(S, iid)].employment_status = "EMPLOYED" THEN HTTP_409_CONFLICT
    ELSE IF S.jobs[JobOf(S, iid)].num_vacancies <= 0 THEN HTTP_400_BAD_REQUEST
    ELSE IF JoiningRows(S, JobOf(S, iid), CandOf(S, iid)) # {} THEN HTTP_409_CONFLICT
    ELSE HTTP_200_OK

(* C12 as stated: a markJoined is answered by the first failing check in the
   order payload (400), job and candidate active (404), candidate not
   EMPLOYED (409), vacancies left (400), no joining row of the pair (409) *)
C12_PreconditionOrder_AsStated ==
    [][\A p \in SeqProcs, iid \in IvIds, body \in JoinBodies :
          update_interview_status(p, iid, body)
          => resp'[p].code = StatedOrderCode(db, iid, body)]_vars

(* C12 amended: the first failing check wins in the order interview, job and
   candidate active (404), payload (400), candidate not EMPLOYED (409),
   vacancies left (400), no joining row of the pair (409) *)
C12_PreconditionOrder ==
    [][\A p \in SeqProcs, iid \in IvIds, body \in JoinBodies :
          (/\ resp'[p].op = "update_interview_status"
           /\ resp'[p].id = iid
           /\ update_interview_status(p, iid, body))
          => resp'[p].code = LookupFirstCode(db, iid, body)]_vars

(* a markJoined of an active interview whose candidate is inactive was
   answered 404, and one for an EMPLOYED candidate on a full job 409 *)
C12_Witness ==
    /\ resp[1].op = "update_interview_status"
    /\ resp[1].code = HTTP_404_NOT_FOUND
    /\ Active(db.ivs[resp[1].id])
    /\ Active(db.jobs[JobOf(db, resp[1].id)])
    /\ ~db.cands[CandOf(db, resp[1].id)].is_active

-----------------------------------------------------------------------------
OtherStatusBodies == {b \in InterviewStatusUpdate : b.status # "JOINED"}

(* C13: a successful update_interview_status whose target is not JOINED
   changes the status of the interview and nothing else, and returns no
   placement_income_id *)
C13_OnlyJoinedHasSideEffects ==
    [][\A p \in SeqProcs, iid \in IvIds, body \in OtherStatusBodies :
          (/\ resp'[p].op = "update_interview_status"
           /\ resp'[p].id = iid
           /\ resp'[p].code = HTTP_200_OK
           /\ update_interview_status(p, iid, body))
          => /\ db' = [db EXCEPT !.ivs[iid].status = body.status]
             /\ resp'[p].placement_income_id = Null]_vars

(* an interview that was JOINED is REJECTED now; the vacancy stays taken, the
   candidate EMPLOYED, the joining row and the receivable in place *)
C13_Witness ==
    /\ resp[1].op = "update_interview_status"
    /\ resp[1].code = HTTP_200_OK
    /\ resp[1].placement_income_id = Null
    /\ db.ivs[resp[1].id].status = "REJECTED"
    /\ db.cands[CandOf(db, resp[1].id)].employment_status = "EMPLOYED"
    /\ db.jobs[JobOf(db, resp[1].id)].num_vacancies = 0
    /\ Len(db.joined) = 1
    /\ Len(db.incomes) = 1

-----------------------------------------------------------------------------
(* C14: every receivable has total_received + balance = total_receivable and
   balance >= 0 after every request, and an installment above the balance
   changes nothing *)
C14_BalanceInvariant ==
    [][/\ \A k \in DOMAIN db'.incomes :
             /\ db'.incomes[k].total_received + db'.incomes[k].balance
                  = db'.incomes[k].total_receivable
             /\ db'.incomes[k].balance >= 0
       /\ \A p \in SeqProcs, k \in DOMAIN db.incomes, amount \in 1..MaxAmount :
             (amount > db.incomes[k].balance /\ post_installment(p, k, amount))
             => db' = db]_vars

(* a receivable paid in part *)
C14_Witness ==
    \E k \in DOMAIN db.incomes :
       /\ db.incomes[k].total_received > 0
       /\ db.incomes[k].balance > 0
       /\ db.incomes[k].total_received + db.incomes[k].balance = db.incomes[k].total_receivable

-----------------------------------------------------------------------------
(* Vocabulary of the ledger properties *)

(* the payments of the store, each with the tag of its table *)
CompanyRows(S) ==
    {LedgerRow(k, "COMPANY_PAYMENT", S.company_payments[k].payment_date,
               S.company_payments[k].amount, S.company_payments[k].created_at, TRUE,
               Null, S.company_payments[k].company_id, Null, Null, Null) :
        k \in {i \in DOMAIN S.company_payments : S.company_payments[i].exists}}

CandidateRows(S) ==
    {LedgerRow(k, "CANDIDATE_PAYMENT", S.candidate_payments[k].payment_date,
               S.candidate_payments[k].amount, S.candidate_payments[k].created_at,
               S.candidate_payments[k].is_active, Null, Null,
               S.candidate_payments[k].candidate_id, Null, Null) :
        k \in DOMAIN S.candidate_payments}

InstallmentRows(S) ==
    {LET r == S.income_payments[k]
         inc == S.incomes[r.placement_income_id] IN
     LedgerRow(k, "PLACEMENT_INCOME", r.paid_date, r.amount, r.created_at, r.is_active,
               r.placement_income_id, S.jobs[inc.job_id].company_id, inc.candidate_id,
               inc.job_id, inc.interview_id) :
        k \in DOMAIN S.income_payments}

SourceRows(S) == CompanyRows(S) \cup CandidateRows(S) \cup InstallmentRows(S)

InRange(v, lo, hi) == (lo # Unset => lo <= v) /\ (hi # Unset => v <= hi)

HasId(col, wanted) == wanted # Unset => (col # Null /\ col = wanted)

(* the filters of the request other than the active flag *)
MatchesOtherFilters(row, q) ==
    /\ q.source # {} => row.source \in q.source
    /\ InRange(row.payment_date, q.start_date, q.end_date)
    /\ InRange(row.amount, q.min_amount, q.max_amount)
    /\ HasId(row.company_id, q.company_id)
    /\ HasId(row.candidate_id, q.candidate_id)
    /\ HasId(row.job_id, q.job_id)

Matches(row, q) == MatchesOtherFilters(row, q) /\ (q.include_inactive \/ row.is_active)

MatchingRows(S, q) == {row \in SourceRows(S) : Matches(row, q)}

IsLedger(p) == resp[p].op = "list_payment_ledger"

ItemsOf(p) == {resp[p].items[k] : k \in DOMAIN resp[p].items}

(* the request asks for one page that holds every matching row *)
WholeLedger(p) == resp[p].page = 1 /\ resp[p].limit >= resp[p].total

(* C15: the ledger is the union of the three projections restricted by the
   filter: every returned item is a matching payment under the tag of its
   table, no payment is returned twice, a page that can hold every matching
   payment holds each of them once, and total is the number of matching
   payments whatever the page and the limit. *)
C15_LedgerIsUnionOfSources ==
    \A p \in Procs :
        IsLedger(p) =>
            /\ resp[p].total = Cardinality(MatchingRows(db, resp[p].query))
            /\ ItemsOf(p) \subseteq MatchingRows(db, resp[p].query)
            /\ Cardinality(ItemsOf(p)) = Len(resp[p].items)
            /\ WholeLedger(p) => ItemsOf(p) = MatchingRows(db, resp[p].query)

(* two equal payments of one table and a payment of another, all three counted
   on a page of one *)
C15_Witness ==
    \E p \in Procs :
        /\ IsLedger(p)
        /\ resp[p].total = 3
        /\ resp[p].limit = 1
        /\ resp[p].page = 2
        /\ Len(resp[p].items) = 1
        /\ \E a, b \in MatchingRows(db, resp[p].query) :
              /\ a.id # b.id
              /\ a = [b EXCEPT !.id = a.id]
        /\ \E a, b \in MatchingRows(db, resp[p].query) : a.source # b.source

(* one payment in each table, the company's the oldest and the installment the
   newest, all active *)
OneOfEachByDate(S) ==
    /\ Len(S.company_payments) = 1
    /\ Len(S.candidate_payments) = 1
    /\ Len(S.income_payments) = 1
    /\ S.company_payments[1].payment_date < S.candidate_payments[1].payment_date
    /\ S.candidate_payments[1].payment_date < S.income_payments[1].paid_date
    /\ S.candidate_payments[1].is_active
    /\ S.income_payments[1].is_active

SourcesOf(items) == [k \in DOMAIN items |-> items[k].source]

(* C16: the items of a page come by payment_date descending and, among equal
   payment dates, by created_at descending, whatever their tables; one company
   payment, a later candidate payment and a still later installment, asked for
   without filters, come as installment, candidate payment, company payment
   with total 3. *)
C16_NewestFirst ==
    \A p \in Procs :
        IsLedger(p) =>
            /\ \A i, j \in DOMAIN resp[p].items :
                  i < j =>
                     \/ resp[p].items[i].payment_date > resp[p].items[j].payment_date
                     \/ /\ resp[p].items[i].payment_date = resp[p].items[j].payment_date
                        /\ resp[p].items[i].created_at >= resp[p].items[j].created_at
            /\ (OneOfEachByDate(db) /\ resp[p].query = NoFilters) =>
                  /\ SourcesOf(resp[p].items)
                        = <<"PLACEMENT_INCOME", "CANDIDATE_PAYMENT", "COMPANY_PAYMENT">>
                  /\ resp[p].total = 3

(* the three payments of the example, listed without filters *)
C16_Witness ==
    \E p \in Procs :
        /\ IsLedger(p)
        /\ OneOfEachByDate(db)
        /\ resp[p].query = NoFilters
        /\ Len(resp[p].items) = 3

(* C17: pagination is stable: over an unchanged store, two different pages of
   the same request (same filters, same limit) are disjoint ranges of one
   total order of the matching payments, so no payment is on both, also when
   payments share both payment_date and created_at. *)
C17_StablePagination ==
    [][\A p \in Procs :
          (/\ IsLedger(p)
           /\ resp'[p].op = "list_payment_ledger"
           /\ OtherPage(resp[p].query, resp'[p].query)
           /\ db' = db)
          => {resp'[p].items[k] : k \in DOMAIN resp'[p].items} \cap ItemsOf(p) = {}]_vars

OtherwiseMatching(S, q) == {row \in SourceRows(S) : MatchesOtherFilters(row, q)}

(* C18: without include_inactive no returned item is inactive and total counts
   the active payments that match the other filters, whatever their table;
   with include_inactive total counts every payment that matches the other
   filters and the inactive ones among them are returned. *)
C18_ActiveFlagFilter ==
    \A p \in Procs :
        IsLedger(p) =>
            LET q == resp[p].query IN
            /\ ~q.include_inactive =>
                  /\ \A row \in ItemsOf(p) : row.is_active
                  /\ resp[p].total
                        = Cardinality({row \in OtherwiseMatching(db, q) : row.is_active})
            /\ q.include_inactive =>
                  /\ resp[p].total = Cardinality(OtherwiseMatching(db, q))
                  /\ WholeLedger(p) =>
                        \A row \in OtherwiseMatching(db, q) :
                            ~row.is_active => row \in ItemsOf(p)

(* an inactive candidate payment and an inactive installment listed with
   include_inactive *)
C18_Witness ==
    \E p \in Procs :
        /\ IsLedger(p)
        /\ resp[p].query.include_inactive
        /\ \E a, b \in ItemsOf(p) :
              /\ ~a.is_active /\ a.source = "CANDIDATE_PAYMENT"
              /\ ~b.is_active /\ b.source = "PLACEMENT_INCOME"

(* C19: among the payments that pass the active-flag filter, a payment is in
   the ledger exactly when its tag is one of the requested tags (if any are
   requested), start_date <= payment_date <= end_date, min_amount <= amount <=
   max_amount, each bound inclusive and applied only if given, and each
   requested company, candidate and job id equals the payment's projected id,
   which a null projected id never does: with a job id only installments are
   returned, and with a candidate id no company payment is. *)
C19_FilterSemantics ==
    \A p \in Procs :
        IsLedger(p) =>
            LET q == resp[p].query IN
            /\ WholeLedger(p) =>
                  \A row \in SourceRows(db) :
                      (q.include_inactive \/ row.is_active) =>
                         (row \in ItemsOf(p) <=>
                             /\ q.source = {} \/ row.source \in q.source
                             /\ q.start_date = Unset \/ q.start_date <= row.payment_date
                             /\ q.end_date = Unset \/ row.payment_date <= q.end_date
                             /\ q.min_amount = Unset \/ q.min_amount <= row.amount
                             /\ q.max_amount = Unset \/ row.amount <= q.max_amount
                             /\ q.company_id = Unset
                                   \/ (row.company_id # Null /\ row.company_id = q.company_id)
                             /\ q.candidate_id = Unset
                                   \/ (row.candidate_id # Null
                                          /\ row.candidate_id = q.candidate_id)
                             /\ q.job_id = Unset
                                   \/ (row.job_id # Null /\ row.job_id = q.job_id))
            /\ q.job_id # Unset => \A row \in ItemsOf(p) : row.source = "PLACEMENT_INCOME"
            /\ q.candidate_id # Unset =>
                  \A row \in ItemsOf(p) : row.source # "COMPANY_PAYMENT"

(* a date range of one day returns a payment of that day and leaves out an
   active payment of another day *)
C19_Witness ==
    \E p \in Procs :
        /\ IsLedger(p)
        /\ resp[p].query.start_date # Unset
        /\ resp[p].query.start_date = resp[p].query.end_date
        /\ \E row \in ItemsOf(p) : row.payment_date = resp[p].query.start_date
        /\ \E row \in SourceRows(db) : row.is_active /\ row \notin ItemsOf(p)

-----------------------------------------------------------------------------
(* Vocabulary of the candidate properties *)

FeesOf(S, cid) ==
    {k \in DOMAIN S.joc_structure_fees : S.joc_structure_fees[k].candidate_id = cid}

PaymentsOf(S, cid) ==
    {k \in DOMAIN S.candidate_payments : S.candidate_payments[k].candidate_id = cid}

CandidateRowCount(S) == Cardinality({c \in CandIds : S.cands[c].exists})

(* C20: a creation on the JOC track without fee_structure is rejected, and so
   is one on the REGISTERED or JOC track without initial_payment; a rejected
   creation leaves the candidates, the fee structures and the payments as they
   were; an accepted creation on the JOC track adds one candidate, exactly one
   fee structure of that candidate, with balance = total_fee, and exactly one
   payment of that candidate. *)
C20_CandidateCreationRules ==
    [][\A p \in Procs :
          resp'[p].op = "create_candidate" =>
          \A body \in CandidateCreate :
          create_candidate(p, body) =>
             /\ (body.status = "JOC" /\ body.fee_structure = Unset)
                   => resp'[p].code = HTTP_400_BAD_REQUEST
             /\ (body.status \in {"REGISTERED", "JOC"} /\ body.initial_payment = Unset)
                   => resp'[p].code = HTTP_400_BAD_REQUEST
             /\ resp'[p].code # HTTP_200_OK =>
                   /\ db'.cands = db.cands
                   /\ db'.joc_structure_fees = db.joc_structure_fees
                   /\ db'.candidate_payments = db.candidate_payments
             /\ (resp'[p].code = HTTP_200_OK /\ body.status = "JOC") =>
                   /\ ~db.cands[resp'[p].id].exists
                   /\ db'.cands[resp'[p].id].exists
                   /\ CandidateRowCount(db') = CandidateRowCount(db) + 1
                   /\ Len(db'.joc_structure_fees) = Len(db.joc_structure_fees) + 1
                   /\ Len(db'.candidate_payments) = Len(db.candidate_payments) + 1
                   /\ Cardinality(FeesOf(db', resp'[p].id)) = 1
                   /\ Cardinality(PaymentsOf(db', resp'[p].id)) = 1
                   /\ \A k \in FeesOf(db', resp'[p].id) :
                         /\ db'.joc_structure_fees[k].total_fee = body.fee_structure
                         /\ db'.joc_structure_fees[k].balance
                               = db'.joc_structure_fees[k].total_fee]_vars

(* a candidate accepted on the JOC track, with its fee structure and its
   payment, after another candidate was created *)
C20_Witness ==
    \E p \in Procs :
        /\ resp[p].op = "create_candidate"
        /\ resp[p].code = HTTP_200_OK
        /\ resp[p].id = 2
        /\ db.cands[2].status = "JOC"
        /\ Cardinality(FeesOf(db, 2)) = 1
        /\ Cardinality(PaymentsOf(db, 2)) = 1
        /\ \A k \in FeesOf(db, 2) : db.joc_structure_fees[k].balance = MaxAmount

(* the track a candidate has once the update's own status is applied *)
TrackAfter(S, cid, body) == IF body.status # "unset" THEN body.status ELSE S.cands[cid].status

ForbiddenForTrack(track, body) ==
    \/ track \in {"CAPS", "FREE"}
          /\ (body.fee_structure # Unset \/ body.initial_payment # Unset)
    \/ track = "REGISTERED" /\ body.fee_structure # Unset

(* C21: an update of an active candidate that carries fee_structure or
   initial_payment while the track after the update's own status is CAPS or
   FREE, or fee_structure while it is REGISTERED, is answered with a
   validation failure and leaves the candidate (the scalar fields and the
   status of the same update included), the fee structures and the payments
   as they were. *)
C21_UpdateTrackRules ==
    [][\A p \in Procs, cid \in CandIds :
          (/\ resp'[p].op = "update_candidate"
           /\ resp'[p].id = cid
           /\ db.cands[cid].exists /\ db.cands[cid].is_active) =>
          \/ /\ resp'[p].code = HTTP_400_BAD_REQUEST
             /\ db'.cands = db.cands
             /\ db'.joc_structure_fees = db.joc_structure_fees
             /\ db'.candidate_payments = db.candidate_payments
          \/ \A body \in CandidateUpdate :
                ForbiddenForTrack(TrackAfter(db, cid, body), body)
                => ~update_candidate(p, cid, body)]_vars

(* a JOC candidate with its fee structure whose update was refused: only a
   status of the update itself can have made its track a forbidden one *)
C21_Witness ==
    \E p \in Procs :
        /\ resp[p].op = "update_candidate"
        /\ resp[p].code = HTTP_400_BAD_REQUEST
        /\ db.cands[resp[p].id].is_active
        /\ db.cands[resp[p].id].status = "JOC"
        /\ Cardinality(FeesOf(db, resp[p].id)) = 1

ActiveFeesOf(S, cid) == {k \in FeesOf(S, cid) : S.joc_structure_fees[k].is_active}

(* C22: whatever the order and the interleaving of create_candidate and
   update_candidate calls, every candidate has at most one active fee
   structure row; two overlapping JOC updates that carry fee_structure for a
   candidate without one do not both insert a row. *)
C22_AtMostOneFeeStructure ==
    \A cid \in CandIds : Cardinality(ActiveFeesOf(db, cid)) <= 1

(* C23: a successful update of a candidate that has a fee structure and is on
   the JOC track after the update sets total_fee and due_date of the fee
   structure to the payload values when the payload carries one, never
   changes its balance and adds no fee row; a payment payload appends exactly
   one payment of that candidate, and without one the payments are as they
   were. *)
C23_FeeUpdateKeepsBalance ==
    [][\A p \in Procs, cid \in CandIds :
          (/\ resp'[p].op = "update_candidate"
           /\ resp'[p].id = cid
           /\ resp'[p].code = HTTP_200_OK
           /\ FeesOf(db, cid) # {}) =>
          \A body \in CandidateUpdate :
          (/\ TrackAfter(db, cid, body) = "JOC"
           /\ update_candidate(p, cid, body))
          => /\ Len(db'.joc_structure_fees) = Len(db.joc_structure_fees)
             /\ \A k \in DOMAIN db.joc_structure_fees :
                   /\ db'.joc_structure_fees[k].balance = db.joc_structure_fees[k].balance
                   /\ IF k \in FeesOf(db, cid) /\ body.fee_structure # Unset
                      THEN /\ db'.joc_structure_fees[k].total_fee = body.fee_structure
                           /\ db'.joc_structure_fees[k].due_date = body.fee_due_date
                      ELSE db'.joc_structure_fees[k] = db.joc_structure_fees[k]
             /\ IF body.initial_payment # Unset
                THEN /\ Len(db'.candidate_payments) = Len(db.candidate_payments) + 1
                     /\ SubSeq(db'.candidate_payments, 1, Len(db.candidate_payments))
                           = db.candidate_payments
                     /\ db'.candidate_payments[Len(db'.candidate_payments)].candidate_id = cid
                     /\ db'.candidate_payments[Len(db'.candidate_payments)].amount
                           = body.initial_payment
                ELSE db'.candidate_payments = db.candidate_payments]_vars

(* a JOC candidate whose fee structure was rewritten to a total_fee below its
   untouched balance, with a second payment appended *)
C23_Witness ==
    \E p \in Procs :
        /\ resp[p].op = "update_candidate"
        /\ resp[p].code = HTTP_200_OK
        /\ db.cands[resp[p].id].status = "JOC"
        /\ Cardinality(PaymentsOf(db, resp[p].id)) = 2
        /\ \E k \in FeesOf(db, resp[p].id) :
              /\ db.joc_structure_fees[k].total_fee = 1
              /\ db.joc_structure_fees[k].balance = MaxAmount
              /\ db.joc_structure_fees[k].due_date # Null

(* C24: no two candidate rows share a non-null email, and every create or
   update that would store a duplicate email (an otherwise acceptable
   create_candidate or update_candidate, or any public creation) answers with
   a conflict and leaves the store as it was. *)
HoldersOf(S, email) == {c \in CandIds : S.cands[c].exists /\ S.cands[c].email = email}

UniqueEmails(S) ==
    \A a, b \in CandIds :
        (/\ S.cands[a].exists /\ S.cands[b].exists
         /\ S.cands[a].email # Null
         /\ S.cands[a].email = S.cands[b].email) => a = b

AcceptableCreate(body) ==
    /\ body.status = "JOC" => body.fee_structure # Unset
    /\ body.status \in {"REGISTERED", "JOC"} => body.initial_payment # Unset
    /\ body.status \notin {"REGISTERED", "JOC"} => body.initial_payment = Unset
    /\ body.status # "JOC" => body.fee_structure = Unset

ConflictReported(p) == resp'[p].code = HTTP_409_CONFLICT /\ db' = db

C24_DuplicatesAreConflicts ==
    /\ [](UniqueEmails(db))
    /\ [][\A p \in Procs :
            /\ \A body \in CandidateCreate :
                  (/\ resp'[p].op = "create_candidate"
                   /\ body.email # Null
                   /\ HoldersOf(db, body.email) # {}
                   /\ AcceptableCreate(body)
                   /\ create_candidate(p, body)) => ConflictReported(p)
            /\ \A body \in CandidatePublicCreate :
                  (/\ resp'[p].op = "public_create_candidate"
                   /\ body.email # Null
                   /\ HoldersOf(db, body.email) # {}
                   /\ public_create_candidate(p, body)) => ConflictReported(p)
            /\ \A cid \in CandIds, body \in CandidateUpdate :
                  (/\ resp'[p].op = "update_candidate"
                   /\ resp'[p].id = cid
                   /\ body.email # Unset
                   /\ db.cands[cid].exists /\ db.cands[cid].is_active
                   /\ HoldersOf(db, body.email) \ {cid} # {}
                   /\ ~ForbiddenForTrack(TrackAfter(db, cid, body), body)
                   /\ update_candidate(p, cid, body)) => ConflictReported(p)]_vars

(* C25: delete_candidate on an active candidate only sets its is_active to
   false: every other field of the row, every other candidate, the fee
   structures and the payments stay as they were; delete_candidate,
   get_candidate and update_candidate on a candidate that is already
   soft-deleted answer not-found and change nothing. *)
C25_SoftDeleteOnly ==
    [][\A p \in Procs, cid \in CandIds :
          /\ (/\ resp'[p].op = "delete_candidate"
              /\ resp'[p].id = cid
              /\ delete_candidate(p, cid))
             => IF db.cands[cid].exists /\ db.cands[cid].is_active
                THEN /\ resp'[p].code = HTTP_200_OK
                     /\ db' = [db EXCEPT !.cands[cid].is_active = FALSE]
                ELSE /\ resp'[p].code = HTTP_404_NOT_FOUND
                     /\ db' = db
          /\ (/\ resp'[p].op = "get_candidate"
              /\ resp'[p].id = cid
              /\ db.cands[cid].exists /\ ~db.cands[cid].is_active
              /\ get_candidate(p, cid))
             => (resp'[p].code = HTTP_404_NOT_FOUND /\ db' = db)
          /\ (/\ resp'[p].op = "update_candidate"
              /\ resp'[p].id = cid
              /\ db.cands[cid].exists /\ ~db.cands[cid].is_active)
             => \A body \in CandidateUpdate :
                   update_candidate(p, cid, body)
                   => (resp'[p].code = HTTP_404_NOT_FOUND /\ db' = db)]_vars

(* a second delete_candidate was refused for a soft-deleted candidate that
   still has its fee structure and its payment *)
C25_Witness ==
    \E p \in Procs :
        /\ resp[p].op = "delete_candidate"
        /\ resp[p].code = HTTP_404_NOT_FOUND
        /\ db.cands[resp[p].id].exists
        /\ ~db.cands[resp[p].id].is_active
        /\ ActiveFeesOf(db, resp[p].id) # {}
        /\ \E k \in PaymentsOf(db, resp[p].id) : db.candidate_payments[k].is_active

(* C26: the receivable a markJoined creates is appended to the receivables
   with total_receivable equal to the payload's placement_total_receivable,
   total_received 0, balance equal to total_receivable, the interview and its
   candidate and job as links, and due_date equal to the payload's
   placement_due_date when it is supplied and to the payload's doj when it
   is not. *)
C26_NewReceivable ==
    [][\A p \in SeqProcs, iid \in IvIds, body \in CompleteJoinBodies :
          (/\ resp'[p].op = "update_interview_status"
           /\ resp'[p].id = iid
           /\ resp'[p].code = HTTP_200_OK
           /\ Len(db'.incomes) > Len(db.incomes)
           /\ update_interview_status(p, iid, body))
          => /\ Len(db'.incomes) = Len(db.incomes) + 1
             /\ SubSeq(db'.incomes, 1, Len(db.incomes)) = db.incomes
             /\ resp'[p].placement_income_id = Len(db'.incomes)
             /\ LET income == db'.incomes[Len(db'.incomes)] IN
                /\ income.is_active
                /\ income.total_receivable = body.placement_total_receivable
                /\ income.total_received = 0
                /\ income.balance = income.total_receivable
                /\ income.interview_id = iid
                /\ income.candidate_id = db.ivs[iid].candidate_id
                /\ income.job_id = db.ivs[iid].job_id
                /\ income.due_date = IF body.placement_due_date # Null
                                     THEN body.placement_due_date ELSE body.doj]_vars

(* a join just created a receivable that falls due on the supplied
   placement_due_date, not on the joining date *)
C26_Witness ==
    \E p \in SeqProcs :
        /\ JoinSucceeded(p)
        /\ resp[p].placement_income_id = Len(db.incomes)
        /\ db.incomes[Len(db.incomes)].due_date \in DueValues
        /\ db.incomes[Len(db.incomes)].due_date \notin DojValues
        /\ db.incomes[Len(db.incomes)].total_received = 0
        /\ db.incomes[Len(db.incomes)].balance = MaxAmount

(* C27: update_interview_status with any target status on an interview that
   is missing or soft-deleted, and a JOINED call whose job or candidate is
   missing or inactive, answer not-found and change nothing; a soft-deleted
   interview keeps its row, status included, through every later request. *)
LookupFails(S, iid, body) ==
    IF ~(S.ivs[iid].exists /\ S.ivs[iid].is_active) THEN TRUE
    ELSE /\ body.status = "JOINED"
         /\ \/ ~(S.jobs[JobOf(S, iid)].exists /\ S.jobs[JobOf(S, iid)].is_active)
            \/ ~(S.cands[CandOf(S, iid)].exists /\ S.cands[CandOf(S, iid)].is_active)

C27_NotFoundAndFrozen ==
    [][/\ \A p \in SeqProcs, iid \in IvIds, body \in InterviewStatusUpdate :
             (/\ resp'[p].op = "update_interview_status"
              /\ resp'[p].id = iid
              /\ LookupFails(db, iid, body)
              /\ update_interview_status(p, iid, body))
             => (resp'[p].code = HTTP_404_NOT_FOUND /\ db' = db)
       /\ \A iid \in IvIds :
             (db.ivs[iid].exists /\ ~db.ivs[iid].is_active)
             => db'.ivs[iid] = db.ivs[iid]]_vars

(* a status change was refused for a soft-deleted interview whose job and
   candidate are still active *)
C27_Witness ==
    \E p \in SeqProcs :
        /\ resp[p].op = "update_interview_status"
        /\ resp[p].code = HTTP_404_NOT_FOUND
        /\ db.ivs[resp[p].id].exists
        /\ ~db.ivs[resp[p].id].is_active
        /\ db.jobs[db.ivs[resp[p].id].job_id].is_active
        /\ db.cands[db.ivs[resp[p].id].candidate_id].is_active

(* Vocabulary of the placement properties of SpecPlace *)

(* the active joining rows of a candidate, whatever the job *)
JoiningRowsOfCandidate(S, cid) ==
    {k \in DOMAIN S.joined : S.joined[k].is_active /\ S.joined[k].candidate_id = cid}

(* a markJoined succeeded for the candidate: it left a joining row *)
WasJoined(S, cid) == \E k \in DOMAIN S.joined : S.joined[k].candidate_id = cid

PlaceJoinBodies == {b \in PlaceStatusUpdate : b.status = "JOINED"}

OneJoiningPerCandidate == \A cid \in CandIds : Cardinality(JoiningRowsOfCandidate(db, cid)) <= 1

(* C28 as stated: once a markJoined succeeded for a candidate, every later
   markJoined of an interview of that candidate answers with a conflict, and
   a candidate never has two active joining rows *)
C28_OnceEmployed_AsStated ==
    /\ []OneJoiningPerCandidate
    /\ [][\A p \in SeqProcs, iid \in IvIds, body \in PlaceJoinBodies :
            (/\ resp'[p].op = "update_interview_status"
             /\ resp'[p].id = iid
             /\ db.ivs[iid].exists
             /\ WasJoined(db, CandOf(db, iid))
             /\ update_interview_status(p, iid, body))
            => resp'[p].code = HTTP_409_CONFLICT]_vars

(* C28: once a markJoined succeeded for a candidate, every later markJoined
   of an interview of that candidate fails and changes nothing, with a
   conflict when the interview, its job and the candidate are active and the
   payload is complete, and with not-found or a validation failure
   otherwise; a candidate never has two active joining rows *)
C28_OnceEmployed ==
    /\ []OneJoiningPerCandidate
    /\ [][\A p \in SeqProcs, iid \in IvIds, body \in PlaceJoinBodies :
            (/\ resp'[p].op = "update_interview_status"
             /\ resp'[p].id = iid
             /\ db.ivs[iid].exists
             /\ WasJoined(db, CandOf(db, iid))
             /\ update_interview_status(p, iid, body))
            => /\ db' = db
               /\ resp'[p].code = IF ~AllActive(db, iid) THEN HTTP_404_NOT_FOUND
                                  ELSE IF ~PayloadComplete(body) THEN HTTP_400_BAD_REQUEST
                                  ELSE HTTP_409_CONFLICT]_vars

(* a candidate joined to one job, whose joined interview was soft-deleted,
   was refused with a conflict on an interview for another job that still
   has vacancies *)
C28_Witness ==
    \E p \in SeqProcs :
        /\ resp[p].op = "update_interview_status"
        /\ resp[p].code = HTTP_409_CONFLICT
        /\ Active(db.ivs[resp[p].id])
        /\ db.jobs[JobOf(db, resp[p].id)].num_vacancies >= 1
        /\ JoiningRows(db, JobOf(db, resp[p].id), CandOf(db, resp[p].id)) = {}
        /\ Cardinality(JoiningRowsOfCandidate(db, CandOf(db, resp[p].id))) = 1
        /\ \E iid \in IvIds : /\ db.ivs[iid].exists
                              /\ ~db.ivs[iid].is_active
                              /\ db.ivs[iid].status = "JOINED"
                              /\ db.ivs[iid].candidate_id = CandOf(db, resp[p].id)

(* the active joining rows of a job, whatever the candidate *)
JoiningRowsOfJob(S, jid) ==
    {k \in DOMAIN S.joined : S.joined[k].is_active /\ S.joined[k].job_id = jid}

Filled(S, jid) == S.jobs[jid].num_vacancies + Cardinality(JoiningRowsOfJob(S, jid))

(* C29: while update_job leaves num_vacancies alone, the vacancies of a job
   plus its active joining rows stay what they were at the start, every
   request keeps that sum, and a markJoined that succeeds finds at least one
   vacancy, so that the floor at 0 is never what decides the new count. *)
C29_VacancyConservation ==
    /\ [](Filled(db, 2) = MaxVacancies)
    /\ [][/\ \A jid \in JobIds : Filled(db', jid) = Filled(db, jid)
          /\ \A p \in SeqProcs, iid \in IvIds, body \in PlaceJoinBodies :
                (/\ resp'[p].op = "update_interview_status"
                 /\ resp'[p].id = iid
                 /\ resp'[p].code = HTTP_200_OK
                 /\ update_interview_status(p, iid, body))
                => /\ db.jobs[JobOf(db, iid)].num_vacancies >= 1
                   /\ db'.jobs[JobOf(db, iid)].num_vacancies
                        = db.jobs[JobOf(db, iid)].num_vacancies - 1]_vars

(* a job whose vacancies were all taken by joins, of two candidates *)
C29_Witness ==
    \E jid \in JobIds :
        /\ db.jobs[jid].num_vacancies = 0
        /\ Cardinality(JoiningRowsOfJob(db, jid)) = MaxVacancies
        /\ \A c \in CandIds : JoiningRows(db, jid, c) # {}

(* C30: every active interview whose status is JOINED has an active joining
   row of its job and candidate, and its candidate is EMPLOYED. *)
C30_JoinedHasSideEffects ==
    \A iid \in IvIds :
        (Active(db.ivs[iid]) /\ db.ivs[iid].status = "JOINED")
        => /\ JoiningRows(db, JobOf(db, iid), CandOf(db, iid)) # {}
           /\ db.cands[CandOf(db, iid)].employment_status = "EMPLOYED"

====
